---- MODULE Spec2Model ----
(***************************************************************************)
(* A model of the request-processing engine of cblt: the file-serving      *)
(* adapter (path sanitizing, ranged responses), the directive pipeline     *)
(* (host selection and the walk), the reverse-proxy load balancer          *)
(* (selection, liveness state, connect retries) and the port worker's      *)
(* settings cell.                                                          *)
(*                                                                         *)
(* Strings the code inspects character by character (paths, patterns,      *)
(* host keys) are sequences of one-character strings.  A PathBuf is the    *)
(* sequence of its components, each component a sequence of characters:    *)
(* <<"/">> is Component::RootDir, <<".">> is Component::CurDir,            *)
(* <<".", ".">> is Component::ParentDir and anything else is               *)
(* Component::Normal.                                                      *)
(***************************************************************************)
EXTENDS Integers, Sequences, FiniteSets, TLC

VARIABLES
    call,       \* the pending call of a pure function: its name and inputs
    ret,        \* what the call returned, NoRet before it ran
    store,      \* every ServerSettings value built so far, by generation
    lock,       \* the generation the worker's SettingsLock holds
    pools,      \* the ReverseProxyState of <<generation, host key, pattern>>
    now,        \* the clock, in seconds
    up,         \* the names of the backends that accept connections
    profile,    \* the build profile: "debug" or "release"
    supervisor, \* the supervisor: the DesiredState it applies, port by port
    max_connections, \* the permits the worker's semaphore is created with
    workers,    \* the worker of each port: its accept loop and its cell
    conn        \* the connections: the task of each and what it was sent

pure_vars == <<call, ret>>

server_vars ==
    <<store, lock, pools, now, up, profile, supervisor, max_connections,
      workers, conn>>

vars ==
    <<call, ret, store, lock, pools, now, up, profile, supervisor,
      max_connections, workers, conn>>

----------------------------------------------------------------------------
(* Bounds of the model *)

\* longest request path, in characters after the leading "/"
MaxPathLen == 5

\* largest file size, in bytes
MaxFileSize == 4

\* longest value of a Range header after "bytes=", in characters
MaxRangeLen == 3

----------------------------------------------------------------------------
(* Strings *)

NoRet == [fn |-> "none"]

None == [some |-> FALSE]

Some(v) == [some |-> TRUE, val |-> v]

\* str::starts_with
starts_with(s, prefix) ==
    /\ Len(prefix) <= Len(s)
    /\ SubSeq(s, 1, Len(prefix)) = prefix

\* str::ends_with
ends_with(s, suffix) ==
    /\ Len(suffix) <= Len(s)
    /\ SubSeq(s, Len(s) - Len(suffix) + 1, Len(s)) = suffix

RECURSIVE trim_start_matches(_, _)
\* str::trim_start_matches(char)
trim_start_matches(s, ch) ==
    IF s # <<>> /\ Head(s) = ch THEN trim_start_matches(Tail(s), ch) ELSE s

RECURSIVE SplitAcc(_, _, _)
SplitAcc(s, ch, cur) ==
    IF s = <<>> THEN <<cur>>
    ELSE IF Head(s) = ch THEN <<cur>> \o SplitAcc(Tail(s), ch, <<>>)
    ELSE SplitAcc(Tail(s), ch, Append(cur, Head(s)))

\* str::split(char): the pieces between the separators, empty ones included
Split(s, ch) == SplitAcc(s, ch, <<>>)

\* every string over alphabet of length at most n
RECURSIVE StringsUpTo(_, _)
StringsUpTo(alphabet, n) ==
    IF n = 0 THEN {<<>>}
    ELSE LET shorter == StringsUpTo(alphabet, n - 1)
         IN  shorter \cup {Append(s, ch) : s \in shorter, ch \in alphabet}

\* main.rs: the pattern matcher
matches_pattern(pattern, path) ==
    IF pattern = <<"*">> THEN TRUE
    ELSE IF ends_with(pattern, <<"*">>)
         THEN starts_with(path, SubSeq(pattern, 1, Len(pattern) - 1))
    ELSE pattern = path

----------------------------------------------------------------------------
(* std::path as file_server.rs uses it (Unix) *)

RootDir == <<"/">>

CurDir == <<".">>

ParentDir == <<".", ".">>

IsNormal(component) == component \notin {RootDir, CurDir, ParentDir, <<>>}

\* the segments of a relative rest that Components yields: empty segments
\* and "." are dropped, ".." is ParentDir, the others are Normal
RECURSIVE RestComponents(_)
RestComponents(segments) ==
    IF segments = <<>> THEN <<>>
    ELSE IF Head(segments) \in {<<>>, CurDir} THEN RestComponents(Tail(segments))
    ELSE <<Head(segments)>> \o RestComponents(Tail(segments))

\* Path::new(s).components(): a leading "/" is RootDir, a leading "." segment
\* of a relative path is CurDir
Components(s) ==
    LET segments == Split(s, "/")
    IN  IF s = <<>> THEN <<>>
        ELSE IF Head(s) = "/" THEN <<RootDir>> \o RestComponents(segments)
        ELSE IF Head(segments) = CurDir
             THEN <<CurDir>> \o RestComponents(Tail(segments))
        ELSE RestComponents(segments)

\* PathBuf::pop: false and unchanged when the path has no parent
PopOk(path) == path # <<>> /\ path[Len(path)] # RootDir

Pop(path) == SubSeq(path, 1, Len(path) - 1)

\* Path::starts_with: a component-wise prefix
path_starts_with(path, base) == starts_with(path, base)

\* one iteration of the loop of sanitize_path over a component
SanitizeStep(full_path, component) ==
    IF IsNormal(component) THEN Some(Append(full_path, component))
    ELSE IF component = RootDir THEN None
    ELSE IF component = ParentDir
         THEN IF PopOk(full_path) THEN Some(Pop(full_path)) ELSE None
    ELSE Some(full_path)

RECURSIVE SanitizeLoop(_, _)
SanitizeLoop(full_path, components) ==
    IF components = <<>> THEN Some(full_path)
    ELSE LET step == SanitizeStep(full_path, Head(components))
         IN  IF step.some THEN SanitizeLoop(step.val, Tail(components)) ELSE None

\* the mutant of sanitize_path: the final starts_with check is left out
sanitize_path_unchecked(base_path, requested_path) ==
    SanitizeLoop(base_path, Components(requested_path))

\* file_server.rs: sanitize_path
sanitize_path(base_path, requested_path) ==
    LET walked == SanitizeLoop(base_path, Components(requested_path))
    IN  IF walked.some /\ path_starts_with(walked.val, base_path)
        THEN walked ELSE None

IndexHtml == <<"i">>

\* file_directive up to File::open of the requested file: the path it opens
\* (index.html appended when the path is a directory), or None for
\* DirectiveNotMatched
requested_open_path(root, uri_path, is_dir) ==
    LET file_path == sanitize_path(root, trim_start_matches(uri_path, "/"))
    IN  IF file_path.some
        THEN Some(IF is_dir THEN Append(file_path.val, IndexHtml) ELSE file_path.val)
        ELSE None

----------------------------------------------------------------------------
(* Range requests: request.rs parse_range_header, response.rs              *)
(* ranged_file_response and send_response_file                             *)

Digits == <<"0", "1", "2", "3", "4", "5", "6", "7", "8", "9">>

IsDigit(ch) == \E i \in 1..10 : Digits[i] = ch

DigitVal(ch) == (CHOOSE i \in 1..10 : Digits[i] = ch) - 1

RECURSIVE DecimalAcc(_, _)
DecimalAcc(s, acc) ==
    IF s = <<>> THEN acc ELSE DecimalAcc(Tail(s), 10 * acc + DigitVal(Head(s)))

\* str::parse::<u64>().ok() on a string of digits and '-' pieces
parse_u64(s) ==
    IF s # <<>> /\ \A i \in 1..Len(s) : IsDigit(s[i])
    THEN Some(DecimalAcc(s, 0)) ELSE None

RECURSIVE DecimalDigits(_)
DecimalDigits(n) ==
    IF n < 10 THEN <<Digits[n + 1]>>
    ELSE Append(DecimalDigits(n \div 10), Digits[(n % 10) + 1])

\* u64::to_string
to_string(n) == DecimalDigits(n)

\* the width of u64, scaled down to what the checker's integers hold
U64 == 2 ^ 16

\* a u64 subtraction: the release build wraps, the debug build panics
Underflows(a, b) == a < b

wrapping_sub(a, b) == (a - b + U64) % U64

StatusError(status) == [ok |-> FALSE, status |-> status, panic |-> FALSE]

Panic == [ok |-> FALSE, status |-> 0, panic |-> TRUE]

RangeOk(start, end) == [ok |-> TRUE, start |-> start, end |-> end]

\* a subtraction a - b inside parse_range_header, by build
SubOrPanic(a, b, build) ==
    IF Underflows(a, b) /\ build = "debug" THEN None ELSE Some(wrapping_sub(a, b))

\* the match of parse_range_header on the parsed start and end
MatchRange(start, end, file_size, build) ==
    LET last == SubOrPanic(file_size, 1, build)
    IN  IF start.some /\ end.some
        THEN IF start.val <= end.val /\ end.val < file_size
             THEN RangeOk(start.val, end.val)
             ELSE StatusError(416)
        ELSE IF start.some /\ ~end.some
        THEN IF start.val < file_size
             THEN RangeOk(start.val, last.val)
             ELSE StatusError(416)
        ELSE IF ~start.some /\ end.some
        THEN IF end.val # 0
             THEN LET from == SubOrPanic(file_size, end.val, build)
                  IN  IF from.some /\ last.some
                      THEN RangeOk(from.val, last.val)
                      ELSE Panic
             ELSE StatusError(416)
        ELSE StatusError(416)

\* parse_range_header from the split on
ParseParts(parts, file_size, build) ==
    IF Len(parts) # 2 THEN StatusError(400)
    ELSE MatchRange(parse_u64(parts[1]), parse_u64(parts[2]), file_size, build)

\* request.rs: parse_range_header.  has_unit says whether the header starts
\* with "bytes="; range_values is what follows it
parse_range_header(has_unit, range_values, file_size, build) ==
    IF ~has_unit THEN StatusError(400)
    ELSE ParseParts(Split(range_values, "-"), file_size, build)

\* the bytes of a file of the given size: byte i holds i
FileBytes(file_size) == [i \in 1..file_size |-> i - 1]

\* what reading a file from offset start to its end yields
ReadToEnd(content, start) ==
    IF start >= Len(content) THEN <<>> ELSE SubSeq(content, start + 1, Len(content))

\* send_response_file: tokio::io::copy of the body source to the socket,
\* through a GzipEncoder when the request accepts gzip.  The source is the
\* file positioned at start; the copy runs to the end of the file
BodyCopied(content, start, gzip_supported) ==
    IF gzip_supported
    THEN <<"gzip", ReadToEnd(content, start)>>
    ELSE ReadToEnd(content, start)

\* ranged_file_response: status, Content-Length and Content-Range; None when
\* end - start + 1 underflows in the debug build
ranged_file_response(file_size, start, end, build) ==
    IF Underflows(end, start) /\ build = "debug" THEN None
    ELSE Some([status         |-> 206,
               content_length |-> (wrapping_sub(end, start) + 1) % U64,
               content_range  |-> <<"b", "y", "t", "e", "s", " ">>
                                     \o to_string(start) \o <<"-">>
                                     \o to_string(end) \o <<"/">>
                                     \o to_string(file_size)])

\* what the client is sent for a parsed range and the head built for it
RangeBody(range, head, file_size, gzip_supported) ==
    IF head.some
    THEN [fn |-> "range_request", panic |-> FALSE,
          status |-> head.val.status,
          content_length |-> head.val.content_length,
          content_range |-> head.val.content_range,
          body |-> BodyCopied(FileBytes(file_size), range.start, gzip_supported)]
    ELSE [fn |-> "range_request", panic |-> TRUE, status |-> 0,
          content_length |-> 0, content_range |-> <<>>, body |-> <<>>]

\* what the client is sent for the result of parse_range_header
RangeHead(range, file_size, gzip_supported, build) ==
    IF range.ok
    THEN RangeBody(range,
                   ranged_file_response(file_size, range.start, range.end, build),
                   file_size, gzip_supported)
    ELSE [fn |-> "range_request", panic |-> range.panic,
          status |-> range.status,
          content_length |-> 0, content_range |-> <<>>, body |-> <<>>]

\* file_directive for a request that carries a Range header, from the opened
\* file on: the response the client is sent
range_request(has_unit, range_values, file_size, gzip_supported, build) ==
    RangeHead(parse_range_header(has_unit, range_values, file_size, build),
              file_size, gzip_supported, build)

----------------------------------------------------------------------------
(* Configuration: config.rs Directive and ReverseProxyOptions, server.rs    *)
(* ServerSettings and HostDetails                                           *)

\* reverse_proxy.rs: the capacity of the heapless strings
HEAPLESS_STRING_SIZE == 100

\* ReverseProxyOptions (lb_timeout bounds one connect attempt; the model lets
\* any amount of time pass during an attempt)
Options(retries, interval, policy) ==
    [lb_retries |-> retries, lb_interval |-> interval, lb_policy |-> policy]

NoOptions == Options(0, 0, "RoundRobin")

\* a destination of a reverse_proxy directive: its name, the length of the
\* address in bytes and whether the address carries a scheme
Address(name, len, scheme) == [name |-> name, len |-> len, scheme |-> scheme]

BlankDirective ==
    [kind |-> "TlS", pattern |-> <<>>, path |-> <<>>, fallback |-> None,
     destinations |-> <<>>, options |-> NoOptions, destination |-> <<>>,
     cookiename |-> <<>>]

Root(pattern, path, fallback) ==
    [BlankDirective EXCEPT !.kind = "Root", !.pattern = pattern,
                           !.path = path, !.fallback = fallback]

FileServer == [BlankDirective EXCEPT !.kind = "FileServer"]

ReverseProxy(pattern, destinations, options) ==
    [BlankDirective EXCEPT !.kind = "ReverseProxy", !.pattern = pattern,
                           !.destinations = destinations, !.options = options]

Redir(destination) ==
    [BlankDirective EXCEPT !.kind = "Redir", !.destination = destination]

RedirIfNotCookie(cookiename, destination) ==
    [BlankDirective EXCEPT !.kind = "RedirIfNotCookie",
                           !.cookiename = cookiename,
                           !.destination = destination]

TlS == BlankDirective

\* the patterns of the ReverseProxy directives of a directive list: the keys
\* of the map init_proxy_states builds
ProxyPatterns(directives) ==
    {directives[i].pattern :
        i \in {j \in 1..Len(directives) : directives[j].kind = "ReverseProxy"}}

\* the directive a pattern's ReverseProxyState is built from: HashMap::insert
\* keeps the last directive that carries the pattern
StateDirective(directives, pattern) ==
    LET last == CHOOSE i \in 1..Len(directives) :
                    /\ directives[i].kind = "ReverseProxy"
                    /\ directives[i].pattern = pattern
                    /\ \A j \in (i + 1)..Len(directives) :
                          ~(directives[j].kind = "ReverseProxy"
                            /\ directives[j].pattern = pattern)
    IN  directives[last]

\* ServerSettings: hosts maps a host key to the directives of its
\* HostDetails (the reverse_proxy_states of a host are the pools keyed by
\* <<generation, host key, pattern>>)
ServerSettings(hosts, tls) == [hosts |-> hosts, tls_acceptor |-> tls]

----------------------------------------------------------------------------
(* Requests and responses *)

\* a parsed request: Host header value (has_host FALSE and host empty when
\* the header is absent), URI path, Cookie header value, Range header,
\* whether Accept-Encoding names gzip.  query is what follows the ? of the
\* request target, which request.uri().path() leaves out
Request(has_host, host, path, cookie, range, gzip) ==
    [has_host |-> has_host, host |-> host, path |-> path, query |-> <<>>,
     cookie |-> cookie, range |-> range, gzip |-> gzip]

\* the request made with a query string
WithQuery(request, query) == [request EXCEPT !.query = query]

RangeHeader(has_unit, range_values) ==
    Some([has_unit |-> has_unit, range_values |-> range_values])

\* a response written to the client socket
Response(status, location, content_length, content_range, body) ==
    [status |-> status, location |-> location,
     content_length |-> content_length, content_range |-> content_range,
     body |-> body]

\* response.rs: error_response, a canned body and no headers
error_response(status) ==
    Response(status, <<>>, -1, <<>>,
             CASE status = 400 -> "Bad request"
               [] status = 403 -> "Forbidden"
               [] status = 404 -> "Not found"
               [] status = 405 -> "Method not allowed"
               [] status = 500 -> "Internal server error"
               [] status = 502 -> "Bad gateway"
               [] OTHER -> "Unknown error")

\* str::contains
Contains(s, sub) ==
    \E i \in 0..(Len(s) - Len(sub)) : SubSeq(s, i + 1, i + Len(sub)) = sub

\* String::replace("{uri}", path): a destination is a sequence of pieces, the
\* piece URI standing for the text {uri}
URI == <<"{", "u", "r", "i", "}">>

\* the mutant of ReplaceUri: only the first {uri} is replaced
ReplaceUriOnce(destination, path) ==
    IF \E i \in 1..Len(destination) : destination[i] = URI
    THEN LET first == CHOOSE i \in 1..Len(destination) :
                         /\ destination[i] = URI
                         /\ \A j \in 1..(i - 1) : destination[j] # URI
             Flat[n \in 0..Len(destination)] ==
                 IF n = 0 THEN <<>>
                 ELSE Flat[n - 1] \o (IF n = first THEN path ELSE destination[n])
         IN  Flat[Len(destination)]
    ELSE LET Flat[n \in 0..Len(destination)] ==
                 IF n = 0 THEN <<>> ELSE Flat[n - 1] \o destination[n]
         IN  Flat[Len(destination)]

RECURSIVE ReplaceUri(_, _)
ReplaceUri(destination, path) ==
    IF destination = <<>> THEN <<>>
    ELSE (IF Head(destination) = URI THEN path ELSE Head(destination))
         \o ReplaceUri(Tail(destination), path)

\* directive.rs: the cookie test of RedirIfNotCookie
CookieFound(cookies, cookiename) ==
    LET pieces == Split(cookies, ";")
    IN  \E i \in 1..Len(pieces) : Contains(pieces[i], cookiename)

----------------------------------------------------------------------------
(* The file system the file server reads *)

WWW == <<"w">>

\* the regular files and their sizes: www/index.html, www/a and w (outside www)
FileSystem ==
    (<<WWW, IndexHtml>> :> 2) @@ (<<WWW, <<"a">>>> :> 3) @@ (<<<<"s">>>> :> 1)

\* Path::is_dir: a proper prefix of a file's path
path_is_dir(path) ==
    \E f \in DOMAIN FileSystem : Len(path) < Len(f) /\ starts_with(f, path)

\* how the operating system resolves a path at open: ".." steps to the parent
RECURSIVE Resolve(_, _)
Resolve(done, rest) ==
    IF rest = <<>> THEN done
    ELSE IF Head(rest) = CurDir THEN Resolve(done, Tail(rest))
    ELSE IF Head(rest) = ParentDir
         THEN IF done # <<>> /\ IsNormal(done[Len(done)])
              THEN Resolve(Pop(done), Tail(rest))
              ELSE IF done # <<>> /\ done[Len(done)] = RootDir
                   THEN Resolve(done, Tail(rest))
                   ELSE Resolve(Append(done, ParentDir), Tail(rest))
    ELSE Resolve(Append(done, Head(rest)), Tail(rest))

\* File::open: the file's path once resolved, None when there is no such file
file_open(path) ==
    LET resolved == Resolve(<<>>, path)
    IN  IF resolved \in DOMAIN FileSystem THEN Some(resolved) ELSE None

----------------------------------------------------------------------------
(* file_server.rs: file_directive *)

FileOk(response, status) ==
    [kind |-> "ok", status |-> status, response |-> response]

FileError(status) ==
    [kind |-> "error", status |-> status, response |-> error_response(status)]

FileNotMatched ==
    [kind |-> "not_matched", status |-> 0, response |-> error_response(404)]

FilePanic == [kind |-> "panic", status |-> 0, response |-> error_response(500)]

\* the file file_directive serves once the requested one was tried: the
\* requested one, else the fallback under the root, else None
FirstOpened(opened, root, fallback_file) ==
    IF opened.some THEN opened
    ELSE IF fallback_file.some
         THEN file_open(root \o Components(trim_start_matches(fallback_file.val, "/")))
    ELSE None

ServedFile(root, fallback_file, requested) ==
    FirstOpened(file_open(requested), root, fallback_file)

\* the result of file_directive for a ranged response
RangedFile(r) ==
    IF r.panic THEN FilePanic
    ELSE IF r.status # 206 THEN FileError(r.status)
    ELSE FileOk(Response(206, <<>>, r.content_length, r.content_range, r.body),
                206)

\* file_directive from the opened file on
ServeFile(request, build, file) ==
    IF ~file.some THEN FileError(404)
    ELSE IF request.range.some
    THEN RangedFile(range_request(request.range.val.has_unit,
                                  request.range.val.range_values,
                                  FileSystem[file.val], request.gzip, build))
    ELSE FileOk(Response(200, <<>>, FileSystem[file.val], <<>>,
                         BodyCopied(FileBytes(FileSystem[file.val]), 0,
                                    request.gzip)), 200)

\* file_directive from the result of sanitize_path on
ServeSanitized(root, fallback_file, request, build, sanitized) ==
    IF ~sanitized.some THEN FileNotMatched
    ELSE ServeFile(request, build,
                   ServedFile(root, fallback_file,
                              IF path_is_dir(sanitized.val)
                              THEN Append(sanitized.val, IndexHtml)
                              ELSE sanitized.val))

\* file_directive
file_directive(root_path, fallback_file, request, build) ==
    IF ~root_path.some THEN FileError(500)
    ELSE ServeSanitized(root_path.val, fallback_file, request, build,
                        sanitize_path(root_path.val,
                                      trim_start_matches(request.path, "/")))

----------------------------------------------------------------------------
(* directive.rs: directive_process, from the parsed request to the response *)
(* or to the dispatch of a ReverseProxy directive                           *)

HostKeys(settings) == DOMAIN settings.hosts

WildcardKeys(settings) ==
    {k \in HostKeys(settings) : starts_with(k, <<"*">>)}

\* the mutant of SelectableHosts: the exact key is looked up first and the
\* wildcard entry serves the misses only
SelectableHostsExactFirst(settings, host) ==
    IF host \in HostKeys(settings) THEN {host} ELSE WildcardKeys(settings)

\* the mutant of SelectableHosts: a miss falls back to any configured host
SelectableHostsDefault(settings, host) ==
    IF WildcardKeys(settings) # {} THEN WildcardKeys(settings)
    ELSE IF host \in HostKeys(settings) THEN {host}
    ELSE HostKeys(settings)

\* host selection: the keys whose entry directive_process may use for a
\* request with this Host value.  find() over the HashMap yields whichever
\* wildcard key its iteration meets first; no key means 403
SelectableHosts(settings, host) ==
    IF WildcardKeys(settings) # {} THEN WildcardKeys(settings)
    ELSE IF host \in HostKeys(settings) THEN {host}
    ELSE {}

Responded(responses, statuses, visited) ==
    [kind |-> "respond", sock |-> responses, logged |-> statuses,
     visited |-> visited, index |-> 0]

\* the task panicked: nothing is written, nothing is logged
Panicked(visited) ==
    [kind |-> "panic", sock |-> <<>>, logged |-> <<>>, visited |-> visited,
     index |-> 0]

ToProxy(index, visited) ==
    [kind |-> "proxy", sock |-> <<>>, logged |-> <<>>, visited |-> visited,
     index |-> index]

\* proxy_directive's for loop: the patterns of the host's proxy states that
\* match the request path
MatchingPatterns(directives, request) ==
    {p \in ProxyPatterns(directives) : matches_pattern(p, request.path)}

\* the FileServer arm of directive_process on the result of file_directive;
\* the break after the match ends the loop when the directive did not match
FileServed(r, seen) ==
    IF r.kind = "ok" THEN Responded(<<r.response>>, <<200>>, seen)
    ELSE IF r.kind = "error" THEN Responded(<<r.response>>, <<r.status>>, seen)
    ELSE IF r.kind = "not_matched"
    THEN Responded(<<error_response(404)>>, <<404>>, seen)
    ELSE Panicked(seen)

RECURSIVE Walk(_, _, _, _, _, _, _)
\* the for loop of directive_process from directive i on.  It ends with the
\* responses written and the statuses logged, or at a ReverseProxy directive
\* for which a proxy state matches the path
Walk(directives, request, i, root_path, fallback_file, visited, build) ==
    IF i > Len(directives)
    THEN Responded(<<error_response(404)>>, <<404>>, visited)
    ELSE LET d == directives[i]
             seen == Append(visited, i)
         IN  CASE d.kind = "Root" ->
                    IF matches_pattern(d.pattern, request.path)
                    THEN Walk(directives, request, i + 1, Some(d.path),
                              d.fallback, seen, build)
                    ELSE Walk(directives, request, i + 1, root_path,
                              fallback_file, seen, build)
               [] d.kind = "FileServer" ->
                    FileServed(file_directive(root_path, fallback_file, request,
                                              build), seen)
               [] d.kind = "ReverseProxy" ->
                    IF MatchingPatterns(directives, request) # {}
                    THEN ToProxy(i, seen)
                    ELSE Walk(directives, request, i + 1, root_path,
                              fallback_file, seen, build)
               [] d.kind = "Redir" ->
                    Responded(<<Response(302, ReplaceUri(d.destination, request.path),
                                         -1, <<>>, "")>>, <<302>>, seen)
               [] d.kind = "RedirIfNotCookie" ->
                    IF CookieFound(request.cookie, d.cookiename)
                    THEN Walk(directives, request, i + 1, root_path,
                              fallback_file, seen, build)
                    ELSE Responded(<<Response(302,
                                         ReplaceUri(d.destination, request.path),
                                         -1, <<>>, "")>>, <<302>>, seen)
               [] d.kind = "TlS" ->
                    Walk(directives, request, i + 1, root_path,
                         fallback_file, seen, build)

----------------------------------------------------------------------------
(* reverse_proxy.rs: AliveState, ReverseProxyState and the IP hash *)

Alive(timestamp) == [state |-> "Alive", since |-> timestamp, retries_left |-> 0]

Dead(since, retries_left) ==
    [state |-> "Dead", since |-> since, retries_left |-> retries_left]

\* ReverseProxyState::new: every backend Alive(now), the cursor at 0
NewProxyState(destinations, timestamp) ==
    [alive_state      |-> [i \in 1..Len(destinations) |-> Alive(timestamp)],
     current_backend  |-> 0,
     cursor_lock      |-> 0,
     is_running_check |-> TRUE]

\* a 64-bit word is four 16-bit limbs, the lowest first
Limb == 65536

RECURSIVE Xor(_, _, _)
\* the exclusive or of two numbers below 2^bits
Xor(a, b, bits) ==
    IF bits = 0 THEN 0
    ELSE ((a + b) % 2) + 2 * Xor(a \div 2, b \div 2, bits - 1)

\* FNV_OFFSET_BASIS = 0xcbf29ce484222325
FNV_OFFSET_BASIS == <<8997, 33826, 40164, 52210>>

\* hash * FNV_PRIME modulo 2^64, with FNV_PRIME = 0x100000001b3 = 2^40 + 435
wrapping_mul_prime(h) ==
    LET p0 == h[1] * 435
        p1 == h[2] * 435 + p0 \div Limb
        p2 == h[3] * 435 + p1 \div Limb + (h[1] % 256) * 256
        p3 == h[4] * 435 + p2 \div Limb + (h[1] \div 256) + (h[2] % 256) * 256
    IN  <<p0 % Limb, p1 % Limb, p2 % Limb, p3 % Limb>>

RECURSIVE FnvFold(_, _)
FnvFold(hash, octets) ==
    IF octets = <<>> THEN hash
    ELSE FnvFold(wrapping_mul_prime(
                     [hash EXCEPT ![1] = (hash[1] \div 256) * 256
                                         + Xor(hash[1] % 256, Head(octets), 8)]),
                 Tail(octets))

\* generate_number_from_octet: FNV-1a over the four octets, modulo max
generate_number_from_octet(octets, max) ==
    LET h == FnvFold(FNV_OFFSET_BASIS, octets)
    IN  ((((((h[4] % max) * Limb + h[3]) % max) * Limb + h[2]) % max) * Limb
          + h[1]) % max

\* the mutant of ScanBackend: lb_interval is not waited for
ScanBackendEager(alive_state, timestamp, lb_interval) ==
    IF alive_state.state = "Alive"
    THEN [picked |-> TRUE, alive_state |-> alive_state]
    ELSE IF timestamp > alive_state.since
         THEN IF alive_state.retries_left > 0
              THEN [picked |-> TRUE, alive_state |-> Alive(timestamp)]
              ELSE [picked |-> FALSE,
                    alive_state |-> Dead(timestamp, alive_state.retries_left)]
         ELSE [picked |-> FALSE, alive_state |-> alive_state]

\* one iteration of the loop of get_next_backend on a backend's alive_state,
\* under the backend's lock: whether the backend is picked and the state left
ScanBackend(alive_state, timestamp, lb_interval) ==
    IF alive_state.state = "Alive"
    THEN [picked |-> TRUE, alive_state |-> alive_state]
    ELSE IF timestamp > alive_state.since + lb_interval
         THEN IF alive_state.retries_left > 0
              THEN [picked |-> TRUE, alive_state |-> Alive(timestamp)]
              ELSE [picked |-> FALSE,
                    alive_state |-> Dead(timestamp, alive_state.retries_left)]
         ELSE [picked |-> FALSE, alive_state |-> alive_state]

\* the mutant of DeadState: one retry more than lb_retries is granted
DeadStateOver(timestamp, lb_retries) == Dead(timestamp, lb_retries + 1)

\* the mutant of DeadState: the backend is left Alive
DeadStateAlive(timestamp, lb_retries) == Alive(timestamp)

\* set_dead_backend writes Dead { since: now, retries_left: lb_retries }
DeadState(timestamp, lb_retries) == Dead(timestamp, lb_retries)

\* heapless::String::<100>::from_str(backend.url) in get_next_backend
AddressFits(address) == address.len <= HEAPLESS_STRING_SIZE

\* dest_uri (capacity 200) takes the address and the request path
DestUriFits(address, path) == address.len + Len(path) <= 2 * HEAPLESS_STRING_SIZE

\* dest_uri.parse::<http::Uri>(): an authority followed by a path parses only
\* behind a scheme
DestUriParses(address) == address.scheme

----------------------------------------------------------------------------
(* server.rs: the port worker.  A connection slot is free, or carries a     *)
(* spawned task at one of its await points                                  *)

\* the connection slots of the model
MaxConns == 3

Conns == 1..MaxConns

\* the last second of the clock
MaxTime == 2

\* the settings values a worker may be given
MaxGenerations == 2

\* the DesiredStates a supervisor receives
MaxApplies == 2

V4(octets) == [v4 |-> TRUE, octets |-> octets]

V6 == [v4 |-> FALSE, octets |-> <<>>]

NoRequest == Request(FALSE, <<>>, <<>>, <<>>, None, FALSE)

NoPool == <<>>

\* the ports a configuration can name, and the port whose connections are
\* followed one by one
Ports == {80, 443, 8080}

MainPort == 80

\* the supervisor before its first DesiredState: desired is the server of
\* each port in the DesiredState being applied, todo what is left to do for
\* the port, outcome how the last step for the port ended and applies the
\* number of DesiredStates received
NoSupervisor ==
    [desired |-> [p \in Ports |-> None], todo |-> [p \in Ports |-> "none"],
     outcome |-> [p \in Ports |-> "none"], applies |-> 0]

\* a port without a worker
NoWorker ==
    [pc |-> "none", is_running |-> FALSE, notified |-> FALSE, pending |-> None,
     settings |-> None, incarnation |-> 0, last_update |-> "none",
     in_flight |-> 0, stopped_in |-> "none"]

\* ServerWorker::new: the cell holds the settings built from the server's
\* hosts, is_running is set and nothing has notified notify_stop.  pc is the
\* position of the task run spawns: "new" before run, "bind" before
\* TcpListener::bind, "head" at the loop's test of is_running, "select" in
\* tokio::select!, "deaf" in a select whose accept arm is disabled,
\* "acquire" in acquire_owned, "exited" after Ok(()) and "failed" after an
\* Err.  stopped_in records where the task was when it was told to stop
Worker(settings, pc) ==
    [NoWorker EXCEPT !.pc = pc, !.is_running = TRUE, !.settings = settings,
                     !.incarnation = 1]

\* the one worker of the specifications that follow the connections of
\* MainPort: it waits in select
OneWorker(settings) ==
    [p \in Ports |-> IF p = MainPort THEN Worker(settings, "select")
                     ELSE NoWorker]

\* a connection slot.  first, failed, revived, revivals and starved record
\* the dispatch's past: the first backend a selection returned, the backends
\* the dispatch marked dead, the retries_left of the Dead backend the last
\* selection revived, the backends its selections revived, and whether the
\* pool had no Alive backend at the start of the current call of
\* get_next_backend or at some moment since; update_seen records how the
\* worker's last update had ended when the task started; raw is what the
\* client has sent on the connection.  late and stale order the connect
\* outcomes on one backend: late holds the dispatches whose connect to the
\* backend had succeeded, and which had not yet called set_alive_backend,
\* when this dispatch's last connect attempt failed; stale is set once
\* such a later failure has been written by set_dead_backend
FreeConn ==
    [pc |-> "free", permit |-> FALSE, addr |-> V6, snap |-> 0, tls |-> FALSE,
     parsed |-> FALSE,
     req |-> NoRequest, used_host |-> None, visited |-> <<>>,
     pool |-> NoPool, directive |-> 0, scan_left |-> 0, backend_idx |-> 0,
     backend |-> None, revived |-> None, revivals |-> {}, first |-> None,
     failed |-> {}, starved |-> FALSE, retries |-> 0, sock |-> <<>>, logged |-> <<>>,
     result |-> "none", update_seen |-> "none", raw |-> None,
     late |-> {}, stale |-> FALSE]

\* the pools init_proxy_states builds for the hosts of a generation
NewPools(generation, hosts, timestamp) ==
    LET pids == {<<generation, k, p>> : k \in DOMAIN hosts, p \in
                    UNION {ProxyPatterns(hosts[h]) : h \in DOMAIN hosts}}
        real == {pid \in pids : pid[3] \in ProxyPatterns(hosts[pid[2]])}
    IN  [pid \in real |->
            NewProxyState(StateDirective(hosts[pid[2]], pid[3]).destinations,
                          timestamp)]

\* the mutant of SnapshotOf: the task reads the worker's settings anew
SettingsInForce(c) == store[lock]

\* the settings a task works with: the snapshot it cloned
SnapshotOf(c) == store[conn[c].snap]

\* the directive list of the host selected for a connection
HostDirectives(c) == SnapshotOf(c).hosts[conn[c].used_host.val]

\* the static part of a pool: the directive its state was built from
PoolDirective(pid) == StateDirective(store[pid[1]].hosts[pid[2]], pid[3])

PoolSize(pid) == Len(PoolDirective(pid).destinations)

\* the task ends: the connection is closed and the permit dropped
Closed(c, record, responses, statuses, result) ==
    [record EXCEPT !.pc = "closed",
                   !.permit = FALSE,
                   !.sock = record.sock \o responses,
                   !.logged = record.logged \o statuses,
                   !.result = result,
                   !.scan_left = 0, !.backend_idx = 0, !.retries = 0,
                   !.revived = None]

\* the mutant of available_permits: the permits held are not counted
available_permits_uncounted == max_connections

\* the permits of the semaphore that no task holds: a task holds its permit
\* from its spawn to its end
available_permits ==
    max_connections - Cardinality({c \in Conns : conn[c].permit})

\* init_server: accept() yields a connection, a permit is acquired and the
\* task is spawned
Accept(c, addr) ==
    /\ workers[MainPort].pc = "select"
    /\ workers[MainPort].is_running
    /\ conn[c].pc \in {"free", "closed"}
    /\ available_permits > 0
    /\ conn' = [conn EXCEPT ![c] = [FreeConn EXCEPT !.pc = "spawned",
                                                    !.permit = TRUE,
                                                    !.addr = addr]]
    /\ UNCHANGED <<call, ret, store, lock, pools, now, up, profile,
                   supervisor, max_connections, workers>>

\* the mutant of TaskStart: the task works with the settings the worker
\* was constructed with
TaskStartFirst(c) ==
    /\ conn[c].pc = "spawned"
    /\ conn' = [conn EXCEPT ![c].snap = 1,
                            ![c].update_seen = workers[MainPort].last_update,
                            ![c].pc = IF store[1].tls_acceptor
                                      THEN "tls" ELSE "process"]
    /\ UNCHANGED <<call, ret, store, lock, pools, now, up, profile,
                   supervisor, max_connections, workers>>

\* the task starts: settings.get() clones the handle the cell holds
TaskStart(c) ==
    /\ conn[c].pc = "spawned"
    /\ conn' = [conn EXCEPT ![c].snap = lock,
                            ![c].update_seen = workers[MainPort].last_update,
                            ![c].pc = IF store[lock].tls_acceptor
                                      THEN "tls" ELSE "process"]
    /\ UNCHANGED <<call, ret, store, lock, pools, now, up, profile,
                   supervisor, max_connections, workers>>

\* acceptor.accept(stream): the handshake succeeds, or fails and the task ends
TlsHandshake(c, ok) ==
    /\ conn[c].pc = "tls"
    /\ conn' = [conn EXCEPT ![c] =
                  IF ok THEN [@ EXCEPT !.pc = "process", !.tls = TRUE]
                  ELSE Closed(c, @, <<>>, <<>>, "tls_error")]
    /\ UNCHANGED <<call, ret, store, lock, pools, now, up, profile,
                   supervisor, max_connections, workers>>

\* directive_process on input that socket_to_request rejects: a canned 400
ProcessMalformed(c) ==
    /\ conn[c].pc = "process"
    /\ conn' = [conn EXCEPT ![c] =
                  Closed(c, @, <<error_response(400)>>, <<>>, "err")]
    /\ UNCHANGED <<call, ret, store, lock, pools, now, up, profile,
                   supervisor, max_connections, workers>>

\* directive_process from the outcome of the walk on
Dispatch(c, asked, key, out) ==
    LET walked == [asked EXCEPT !.used_host = Some(key),
                                !.visited = out.visited]
    IN  IF out.kind = "proxy"
        THEN \E pattern \in MatchingPatterns(SnapshotOf(c).hosts[key], asked.req) :
               conn' = [conn EXCEPT ![c] =
                          [walked EXCEPT !.pc = "select",
                                         !.pool = <<conn[c].snap, key, pattern>>,
                                         !.directive = out.index]]
        ELSE conn' = [conn EXCEPT ![c] =
                        Closed(c, walked, out.sock, out.logged,
                               IF out.kind = "panic" THEN "panic" ELSE "ok")]

\* directive_process on a parsed request: host selection, then the walk up
\* to its response or to the dispatch of a ReverseProxy directive
Process(c, request) ==
    /\ conn[c].pc = "process"
    /\ LET hosts == SelectableHosts(SnapshotOf(c), request.host)
           asked == [conn[c] EXCEPT !.parsed = TRUE, !.req = request]
       IN  IF hosts = {}
           THEN conn' = [conn EXCEPT ![c] =
                           Closed(c, asked, <<error_response(403)>>, <<>>, "err")]
           ELSE \E key \in hosts :
                  Dispatch(c, asked, key,
                           Walk(SnapshotOf(c).hosts[key], request, 1, None, None,
                                <<>>, profile))
    /\ UNCHANGED <<call, ret, store, lock, pools, now, up, profile,
                   supervisor, max_connections, workers>>

----------------------------------------------------------------------------
(* reverse_proxy.rs: proxy_directive, one action for each stretch between   *)
(* two of its await points                                                  *)

\* what a backend answers: its status line and a body that names it
UpstreamResponse(address, status) ==
    Response(status, <<>>, -1, <<>>, <<"upstream", address.name>>)

\* the mutant of BadGateway: the directive is taken as not matched and the
\* walk ends with the canned 404
BadGatewayNotMatched(c, record) ==
    Closed(c, record, <<error_response(404)>>, <<404>>, "ok")

\* proxy_directive returns ResponseError 502: directive_process writes the
\* canned 502 and logs it
BadGateway(c, record) ==
    Closed(c, record, <<error_response(502)>>, <<502>>, "ok")

\* proxy_directive returns HeaplessError: directive_process logs 500 and
\* writes nothing
Heapless(c, record) == Closed(c, record, <<>>, <<500>>, "err")

\* get_next_backend returned Ok(backend): proxy_directive builds dest_uri,
\* parses it and enters the connect loop with the directive's lb_retries
Selected(c, record, index, address, revived) ==
    LET lb_retries == HostDirectives(c)[record.directive].options.lb_retries
        picked == [record EXCEPT
                     !.backend = Some(index), !.revived = revived,
                     !.revivals = IF revived.some THEN @ \cup {index} ELSE @,
                     !.first = IF record.first.some THEN record.first
                               ELSE Some(index),
                     !.scan_left = 0, !.backend_idx = 0]
    IN  IF ~DestUriFits(address, record.req.path) THEN Heapless(c, picked)
        ELSE IF ~DestUriParses(address) THEN BadGateway(c, picked)
        ELSE [picked EXCEPT !.retries = lb_retries,
                            !.pc = IF lb_retries > 0 THEN "connect" ELSE "dead"]

\* the mutant of NextIndex: the index stays where it is
NextIndexStuck(idx, n) == idx

\* the index after idx, around the backends
NextIndex(idx, n) == (idx + 1) % n

\* some backend of a pool is Alive
SomeAlive(alive_state) ==
    \E i \in 1..Len(alive_state) : alive_state[i].state = "Alive"

\* one iteration of the loop of get_next_backend at backend idx with left
\* iterations to go: P is the pool's state, D the directive it was built
\* from, r the outcome of the match on the backend's alive_state
ScanOutcome(c, P, D, idx, left, r) ==
    LET n == Len(D.destinations)
        rr == D.options.lb_policy = "RoundRobin"
        address == D.destinations[idx + 1]
        before == P.alive_state[idx + 1]
        returns == r.picked \/ left = 1
        advance == ~r.picked \/ AddressFits(address)
        called == [conn[c] EXCEPT
                     !.starved = IF conn[c].scan_left = 0
                                 THEN ~SomeAlive(P.alive_state) ELSE @]
    IN  /\ pools' = [pools EXCEPT ![conn[c].pool] =
              [alive_state |-> [P.alive_state EXCEPT ![idx + 1] = r.alive_state],
               current_backend |-> IF rr /\ advance THEN NextIndex(idx, n)
                                   ELSE P.current_backend,
               cursor_lock |-> IF rr /\ ~returns THEN c ELSE 0,
               is_running_check |-> P.is_running_check]]
        /\ conn' = [conn EXCEPT ![c] =
              IF r.picked
              THEN IF AddressFits(address)
                   THEN Selected(c, called, idx, address,
                                 IF before.state = "Dead"
                                 THEN Some(before.retries_left) ELSE None)
                   ELSE BadGateway(c, called)
              ELSE IF left = 1 THEN BadGateway(c, called)
              ELSE [called EXCEPT !.scan_left = left - 1,
                                  !.backend_idx = IF rr THEN 0 ELSE NextIndex(idx, n)]]

\* the mutant of ScanIndex: an IPHash call starts at the cursor
ScanIndexCursor(c, P, D) ==
    IF D.options.lb_policy = "RoundRobin" THEN P.current_backend
    ELSE IF conn[c].scan_left > 0 THEN conn[c].backend_idx
    ELSE P.current_backend

\* the backend an iteration of get_next_backend looks at
ScanIndex(c, P, D) ==
    IF D.options.lb_policy = "RoundRobin" THEN P.current_backend
    ELSE IF conn[c].scan_left > 0 THEN conn[c].backend_idx
    ELSE generate_number_from_octet(conn[c].addr.octets, Len(D.destinations))

ScanStep(c, P, D, idx) ==
    ScanOutcome(c, P, D, idx,
                IF conn[c].scan_left > 0 THEN conn[c].scan_left
                ELSE Len(D.destinations),
                ScanBackend(P.alive_state[idx + 1], now, D.options.lb_interval))

\* get_next_backend, one iteration of its loop.  The first iteration of a
\* RoundRobin call takes the cursor lock, which the call holds until it
\* returns; an IPHash call starts at the hash of the client's IPv4 address
ScanPool(c, P, D) ==
    /\ D.options.lb_policy = "RoundRobin" /\ conn[c].scan_left = 0
          => P.cursor_lock = 0
    /\ IF D.options.lb_policy # "RoundRobin" /\ ~conn[c].addr.v4
       THEN /\ conn' = [conn EXCEPT ![c] = BadGateway(c, @)]
            /\ pools' = pools
       ELSE IF Len(D.destinations) = 0
       THEN /\ conn' = [conn EXCEPT ![c] =
                          IF D.options.lb_policy = "RoundRobin"
                          THEN BadGateway(c, [@ EXCEPT !.starved = TRUE])
                          ELSE Closed(c, [@ EXCEPT !.starved = TRUE],
                                      <<>>, <<>>, "panic")]
            /\ pools' = pools
       ELSE ScanStep(c, P, D, ScanIndex(c, P, D))

Scan(c) ==
    /\ conn[c].pc = "select"
    /\ ScanPool(c, pools[conn[c].pool], PoolDirective(conn[c].pool))
    /\ UNCHANGED <<call, ret, store, lock, now, up, profile, supervisor,
                   max_connections, workers>>

\* the dispatches other than c that hold a stream to c's backend and have
\* not yet called set_alive_backend
Succeeded(c) ==
    {d \in Conns \ {c} : /\ conn[d].pc = "alive"
                         /\ conn[d].pool = conn[c].pool
                         /\ conn[d].backend = conn[c].backend}

\* the mutant of ConnectAttempt: the first failed attempt ends the loop
ConnectAttemptOnce(c) ==
    /\ conn[c].pc = "connect"
    /\ LET address == PoolDirective(conn[c].pool).destinations[conn[c].backend.val + 1]
       IN  conn' = [conn EXCEPT ![c] =
                      IF address.name \in up
                      THEN [@ EXCEPT !.pc = "alive", !.retries = 0]
                      ELSE [@ EXCEPT !.retries = @ - 1, !.pc = "dead",
                                     !.late = Succeeded(c)]]
    /\ UNCHANGED <<call, ret, store, lock, pools, now, up, profile,
                   supervisor, max_connections, workers>>

\* one pass of the connect loop: TcpStream::connect under the timeout
ConnectAttempt(c) ==
    /\ conn[c].pc = "connect"
    /\ LET address == PoolDirective(conn[c].pool).destinations[conn[c].backend.val + 1]
       IN  conn' = [conn EXCEPT ![c] =
                      IF address.name \in up
                      THEN [@ EXCEPT !.pc = "alive", !.retries = 0]
                      ELSE [@ EXCEPT !.retries = @ - 1,
                                     !.pc = IF conn[c].retries = 1
                                            THEN "dead" ELSE "connect",
                                     !.late = IF conn[c].retries = 1
                                              THEN Succeeded(c) ELSE @]]
    /\ UNCHANGED <<call, ret, store, lock, pools, now, up, profile,
                   supervisor, max_connections, workers>>

\* the connect loop ended with a stream: set_alive_backend
MarkAlive(c) ==
    /\ conn[c].pc = "alive"
    /\ pools' = [pools EXCEPT ![conn[c].pool].alive_state[conn[c].backend.val + 1] =
                    Alive(now)]
    /\ conn' = [d \in Conns |->
                  IF d = c THEN [conn[c] EXCEPT !.pc = "relay", !.stale = FALSE]
                  ELSE [conn[d] EXCEPT !.late = @ \ {c}]]
    /\ UNCHANGED <<call, ret, store, lock, now, up, profile, supervisor,
                   max_connections, workers>>

\* the connect loop ended without a stream: set_dead_backend, then the next
\* turn of proxy_directive's loop
MarkDead(c) ==
    /\ conn[c].pc = "dead"
    /\ pools' = [pools EXCEPT ![conn[c].pool].alive_state[conn[c].backend.val + 1] =
                    DeadState(now, PoolDirective(conn[c].pool).options.lb_retries)]
    /\ conn' = [d \in Conns |->
                  IF d = c
                  THEN [conn[c] EXCEPT !.pc = "select",
                                       !.failed = @ \cup {conn[c].backend.val},
                                       !.backend = None,
                                       !.revived = None,
                                       !.retries = 0,
                                       !.late = {}]
                  ELSE IF /\ conn[d].pc = "select"
                          /\ conn[d].scan_left > 0
                          /\ conn[d].pool = conn[c].pool
                          /\ ~SomeAlive(pools'[conn[c].pool].alive_state)
                       THEN [conn[d] EXCEPT !.starved = TRUE]
                       ELSE IF d \in conn[c].late
                       THEN [conn[d] EXCEPT !.stale = TRUE]
                       ELSE conn[d]]
    /\ UNCHANGED <<call, ret, store, lock, now, up, profile, supervisor,
                   max_connections, workers>>

RelayOutcomes == {"ok", "write_failed", "head_failed", "copy_failed"}

\* the request is written to the backend, the response head is read and
\* forwarded, and both directions are copied until they close.  The backend
\* answers while it is up; once it is down the exchange fails at the write,
\* at the read of the head, or during the copy.  After a failed copy the
\* client's write half is shut down or its peer is gone: the canned 502 of
\* directive_process cannot be written, and 500 is logged
Relay(c, outcome, status) ==
    /\ conn[c].pc = "relay"
    /\ LET address == PoolDirective(conn[c].pool).destinations[conn[c].backend.val + 1]
       IN  /\ (outcome = "ok") = (address.name \in up)
           /\ conn' = [conn EXCEPT ![c] =
                 CASE outcome = "ok" ->
                        Closed(c, @, <<UpstreamResponse(address, status)>>,
                               <<200>>, "ok")
                   [] outcome = "copy_failed" ->
                        Closed(c, @, <<UpstreamResponse(address, status)>>,
                               <<500>>, "err")
                   [] OTHER -> BadGateway(c, @)]
    /\ UNCHANGED <<call, ret, store, lock, pools, now, up, profile,
                   supervisor, max_connections, workers>>

\* a second passes
Tick ==
    /\ now < MaxTime
    /\ now' = now + 1
    /\ UNCHANGED <<call, ret, store, lock, pools, up, profile, supervisor,
                   max_connections, workers, conn>>

\* a backend starts or stops accepting connections
Flip(name) ==
    /\ up' = IF name \in up THEN up \ {name} ELSE up \cup {name}
    /\ UNCHANGED <<call, ret, store, lock, pools, now, profile, supervisor,
                   max_connections, workers, conn>>

\* a Server of a DesiredState: its hosts, whether it names a certificate
\* and a key, and whether tls_acceptor_builder and init_proxy_states
\* succeed on it
Server(hosts, tls, loads) == [hosts |-> hosts, tls |-> tls, loads |-> loads]

\* the mutant of Updated: the call returns Ok and the cell is left alone
UpdatedKept(worker, server) ==
    [worker EXCEPT !.last_update = IF server.loads THEN "ok" ELSE "err"]

\* the mutant of Updated: the cell is replaced before the settings are
\* built
UpdatedEarly(worker, server) ==
    [worker EXCEPT !.settings = ServerSettings(server.hosts, server.tls),
                   !.last_update = IF server.loads THEN "ok" ELSE "err"]

\* ServerWorker::update on a worker's record: the acceptor and the proxy
\* states are built, and only then is the cell replaced; an error returns
\* before the cell is touched
Updated(worker, server) ==
    IF server.loads
    THEN [worker EXCEPT !.settings = ServerSettings(server.hosts, server.tls),
                        !.last_update = "ok"]
    ELSE [worker EXCEPT !.last_update = "err"]

\* ServerWorker::update on the worker whose connections are followed: the
\* states of the new hosts are built, the health checks of the current ones
\* are told to stop, and the handle is replaced
Update(new) ==
    /\ Len(store) < MaxGenerations
    /\ store' = Append(store, new)
    /\ lock' = Len(store) + 1
    /\ pools' = [pid \in DOMAIN pools |->
                    IF pid[1] = lock
                    THEN [pools[pid] EXCEPT !.is_running_check = FALSE]
                    ELSE pools[pid]]
                @@ NewPools(Len(store) + 1, new.hosts, now)
    /\ workers' = [workers EXCEPT ![MainPort] =
                      Updated(@, Server(new.hosts, new.tls_acceptor, TRUE))]
    /\ UNCHANGED <<call, ret, now, up, profile, supervisor, max_connections,
                   conn>>

\* ServerWorker::update returns an error: the acceptor or a proxy state
\* could not be built, and SettingsLock::update was not reached
UpdateFails(new) ==
    /\ workers' = [workers EXCEPT ![MainPort] =
                      Updated(@, Server(new.hosts, new.tls_acceptor, FALSE))]
    /\ UNCHANGED <<call, ret, store, lock, pools, now, up, profile,
                   supervisor, max_connections, conn>>

\* the mutant of Bind: a bind error ends the task of every worker
BindShared(p, ok) ==
    /\ workers[p].pc = "bind"
    /\ workers' = [q \in Ports |->
                      IF ok
                      THEN IF q = p THEN [workers[q] EXCEPT !.pc = "head"]
                           ELSE workers[q]
                      ELSE IF workers[q].pc = "none" THEN workers[q]
                           ELSE [workers[q] EXCEPT !.pc = "failed"]]
    /\ UNCHANGED <<call, ret, store, lock, pools, now, up, profile,
                   supervisor, max_connections, conn>>

\* init_server: TcpListener::bind returns the listener and the loop is
\* entered, or returns an error and the task ends with it
Bind(p, ok) ==
    /\ workers[p].pc = "bind"
    /\ workers' = [workers EXCEPT ![p].pc = IF ok THEN "head" ELSE "failed"]
    /\ UNCHANGED <<call, ret, store, lock, pools, now, up, profile,
                   supervisor, max_connections, conn>>

\* the loop's test of is_running: the loop ends when it is cleared;
\* otherwise the client is built, and the task ends with the error when it
\* cannot be
LoopHead(p, built) ==
    /\ workers[p].pc = "head"
    /\ built \/ workers[p].is_running
    /\ workers' = [workers EXCEPT ![p].pc =
                      IF ~workers[p].is_running THEN "exited"
                      ELSE IF built THEN "select" ELSE "failed"]
    /\ UNCHANGED <<call, ret, store, lock, pools, now, up, profile,
                   supervisor, max_connections, conn>>

\* the mutant of SelectNotified: the notification is taken and the select
\* is entered again
SelectNotifiedAgain(p) ==
    /\ workers[p].pc \in {"select", "deaf"}
    /\ workers[p].notified
    /\ workers' = [workers EXCEPT ![p].notified = FALSE]
    /\ UNCHANGED <<call, ret, store, lock, pools, now, up, profile,
                   supervisor, max_connections, conn>>

\* select: notify_stop.notified() completes and the loop breaks
SelectNotified(p) ==
    /\ workers[p].pc \in {"select", "deaf"}
    /\ workers[p].notified
    /\ workers' = [workers EXCEPT ![p].pc = "exited", ![p].notified = FALSE]
    /\ UNCHANGED <<call, ret, store, lock, pools, now, up, profile,
                   supervisor, max_connections, conn>>

\* select: listener.accept() yields a connection; the arm then awaits a
\* permit of the semaphore
SelectAccept(p, addr) ==
    /\ workers[p].pc = "select"
    /\ workers' = [workers EXCEPT ![p].pc = "acquire",
                                  ![p].pending = Some(addr)]
    /\ UNCHANGED <<call, ret, store, lock, pools, now, up, profile,
                   supervisor, max_connections, conn>>

\* select: listener.accept() yields an error: the pattern Ok(..) does not
\* match, the arm is disabled and the select waits for notified() alone
SelectAcceptErr(p) ==
    /\ workers[p].pc = "select"
    /\ workers' = [workers EXCEPT ![p].pc = "deaf"]
    /\ UNCHANGED <<call, ret, store, lock, pools, now, up, profile,
                   supervisor, max_connections, conn>>

\* acquire_owned returns a permit, the task of the accepted connection is
\* spawned and the loop goes back to its test
AcquireSpawn(c) ==
    /\ workers[MainPort].pc = "acquire"
    /\ conn[c].pc \in {"free", "closed"}
    /\ available_permits > 0
    /\ conn' = [conn EXCEPT ![c] =
                  [FreeConn EXCEPT !.pc = "spawned",
                                   !.permit = TRUE,
                                   !.addr = workers[MainPort].pending.val]]
    /\ workers' = [workers EXCEPT ![MainPort].pc = "head",
                                  ![MainPort].pending = None]
    /\ UNCHANGED <<call, ret, store, lock, pools, now, up, profile,
                   supervisor, max_connections>>

\* acquire_owned returns a permit and the task is spawned, where the tasks
\* of a port are counted and not followed
SpawnCounted(p) ==
    /\ workers[p].pc = "acquire"
    /\ workers[p].in_flight < max_connections
    /\ workers' = [workers EXCEPT ![p].pc = "head",
                                  ![p].pending = None,
                                  ![p].in_flight = @ + 1]
    /\ UNCHANGED <<call, ret, store, lock, pools, now, up, profile,
                   supervisor, max_connections, conn>>

\* a counted task ends and drops its permit
TaskEnds(p) ==
    /\ workers[p].in_flight > 0
    /\ workers' = [workers EXCEPT ![p].in_flight = @ - 1]
    /\ UNCHANGED <<call, ret, store, lock, pools, now, up, profile,
                   supervisor, max_connections, conn>>

\* the workers after the worker of a port was told to stop: is_running is
\* cleared and notify_stop notified; the notification is kept until the
\* select takes it
Stopped(p) ==
    [workers EXCEPT ![p].is_running = FALSE,
                    ![p].notified = TRUE,
                    ![p].stopped_in = workers[p].pc]

\* the supervisor stops the worker of a port
Stop(p) ==
    /\ workers[p].pc # "none"
    /\ workers[p].is_running
    /\ workers' = Stopped(p)
    /\ UNCHANGED <<call, ret, store, lock, pools, now, up, profile,
                   supervisor, max_connections, conn>>

\* the ports of the supervisor's map
WorkerMap == {p \in Ports : workers[p].pc # "none"}

\* what a DesiredState asks for a port, given the map
Diff(D, p) ==
    IF p \in WorkerMap
    THEN IF D[p].some THEN "update" ELSE "stop"
    ELSE IF D[p].some THEN "start" ELSE "none"

\* the supervisor receives a DesiredState once the one before is applied:
\* the ports of its map that the DesiredState lacks are to be stopped,
\* those it has are to be updated, and the others are to be started
Apply(D) ==
    /\ supervisor.applies < MaxApplies
    /\ \A p \in Ports : supervisor.todo[p] = "none"
    /\ supervisor' = [desired |-> D,
                      todo |-> [p \in Ports |-> Diff(D, p)],
                      outcome |-> [p \in Ports |-> "none"],
                      applies |-> supervisor.applies + 1]
    /\ UNCHANGED <<call, ret, store, lock, pools, now, up, profile,
                   max_connections, workers, conn>>

\* the supervisor after its step for a port
Done(p, todo, outcome) ==
    [supervisor EXCEPT !.todo[p] = todo, !.outcome[p] = outcome]

\* step 1 for a port the DesiredState lacks: the worker is stopped
StopWorker(p) ==
    /\ supervisor.todo[p] = "stop"
    /\ workers' = Stopped(p)
    /\ supervisor' = Done(p, "drain", "none")
    /\ UNCHANGED <<call, ret, store, lock, pools, now, up, profile,
                   max_connections, conn>>

\* step 1, the wait: the loop has ended and no task is left; the worker
\* leaves the map
Drained(p) ==
    /\ supervisor.todo[p] = "drain"
    /\ workers[p].pc \in {"exited", "failed"}
    /\ workers[p].in_flight = 0
    /\ workers' = [workers EXCEPT ![p] =
                      [NoWorker EXCEPT !.incarnation = workers[p].incarnation]]
    /\ supervisor' = Done(p, "none", "ok")
    /\ UNCHANGED <<call, ret, store, lock, pools, now, up, profile,
                   max_connections, conn>>

\* step 2 for a port of the map that the DesiredState has: update
UpdateWorker(p) ==
    /\ supervisor.todo[p] = "update"
    /\ workers' = [workers EXCEPT ![p] = Updated(@, supervisor.desired[p].val)]
    /\ supervisor' = Done(p, "none", workers'[p].last_update)
    /\ UNCHANGED <<call, ret, store, lock, pools, now, up, profile,
                   max_connections, conn>>

\* step 3 for a port the map lacks: ServerWorker::new, which fails when
\* the acceptor or the proxy states cannot be built, then ServerWorker::run,
\* which spawns init_server
StartWorker(p) ==
    /\ supervisor.todo[p] = "start"
    /\ LET server == supervisor.desired[p].val
       IN  IF server.loads
           THEN /\ workers' = [workers EXCEPT ![p] =
                      [Worker(ServerSettings(server.hosts, server.tls), "bind")
                         EXCEPT !.incarnation = workers[p].incarnation + 1]]
                /\ supervisor' = Done(p, "none", "ok")
           ELSE /\ workers' = workers
                /\ supervisor' = Done(p, "none", "err")
    /\ UNCHANGED <<call, ret, store, lock, pools, now, up, profile,
                   max_connections, conn>>

----------------------------------------------------------------------------
(* The specification of the file-serving functions: Init draws the inputs, *)
(* the actions apply the functions                                         *)

PathAlphabet == {"/", ".", "a", "w"}

UriPaths == {<<"/">> \o s : s \in StringsUpTo(PathAlphabet, MaxPathLen)}

\* the roots of the configurations: www, ./www, /www, www/a, / and the empty path
Roots ==
    { <<<<"w">>>>, <<CurDir, <<"w">>>>, <<RootDir, <<"w">>>>,
      <<<<"w">>, <<"a">>>>, <<RootDir>>, <<>> }

RangeAlphabet == {"-", "0", "1", "2", "3", "9"}

RangeValues == StringsUpTo(RangeAlphabet, MaxRangeLen)

\* no worker runs while a function is checked on its own
NoServer ==
    /\ store = <<>>
    /\ lock = 0
    /\ pools = <<>>
    /\ now = 0
    /\ up = {}
    /\ profile = "debug"
    /\ max_connections = 0
    /\ workers = [p \in Ports |-> NoWorker]
    /\ supervisor = NoSupervisor
    /\ conn = [c \in Conns |-> FreeConn]

\* no function is checked on its own while a worker runs
NoCall ==
    /\ call = NoRet
    /\ ret = NoRet

InitPath ==
    /\ call \in [fn : {"file_directive"}, root : Roots, uri_path : UriPaths]
    /\ ret = NoRet
    /\ NoServer

InitRange ==
    /\ call \in [fn : {"range_request"}, has_unit : BOOLEAN,
                 range_values : RangeValues, file_size : 0..MaxFileSize,
                 gzip_supported : BOOLEAN, build : {"debug", "release"}]
    /\ ret = NoRet
    /\ NoServer

\* file_directive runs up to the open of the requested file
FileDirectiveOpen ==
    /\ call.fn = "file_directive"
    /\ ret = NoRet
    /\ \E is_dir \in BOOLEAN :
        ret' = [fn |-> "file_directive",
                sanitized |-> sanitize_path(call.root,
                                  trim_start_matches(call.uri_path, "/")),
                opened |-> requested_open_path(call.root, call.uri_path, is_dir)]
    /\ UNCHANGED call
    /\ UNCHANGED server_vars

\* file_directive answers a request with a Range header
RangeRequest ==
    /\ call.fn = "range_request"
    /\ ret = NoRet
    /\ ret' = range_request(call.has_unit, call.range_values, call.file_size,
                            call.gzip_supported, call.build)
    /\ UNCHANGED call
    /\ UNCHANGED server_vars

NextPath == FileDirectiveOpen

NextRange == RangeRequest

SpecPath == InitPath /\ [][NextPath]_vars

SpecRange == InitRange /\ [][NextRange]_vars

----------------------------------------------------------------------------
(* The specification of directive_process: one connection at a time, on a  *)
(* worker whose settings Init draws                                        *)

HostA == <<"a">>

HostB == <<"b">>

HostC == <<"c">>

Star == <<"*">>

StarX == <<"*", "x">>

BackendX == Address("x", 12, TRUE)

BackendY == Address("y", 12, TRUE)

\* a destination whose address does not fit a heapless string
BackendLong == Address("l", HEAPLESS_STRING_SIZE + 1, TRUE)

\* a destination written without a scheme
BackendBare == Address("n", 9, FALSE)

ToUri == << <<"/", "t">>, URI >>

SiteFiles == <<Root(Star, <<WWW>>, None), FileServer>>

SiteRedir == <<Redir(ToUri)>>

\* a destination that names {uri} twice
ToUriTwice == <<URI, <<"?", "u", "=">>, URI>>

SiteRedirTwice == <<Root(Star, <<WWW>>, None), Redir(ToUriTwice), FileServer>>

SiteProxy ==
    <<ReverseProxy(<<"/", "a", "*">>, <<BackendX, BackendY>>,
                   Options(1, 1, "RoundRobin")),
      Root(Star, <<WWW>>, Some(<<"/", "a">>)), FileServer>>

SiteCookie ==
    <<RedirIfNotCookie(<<"k">>, ToUri),
      ReverseProxy(<<"/">>, <<BackendLong, BackendY>>,
                   Options(2, 0, "RoundRobin")),
      ReverseProxy(Star, <<BackendBare, BackendY>>, Options(2, 0, "IPHash"))>>

PipeSettings ==
    { ServerSettings((HostA :> SiteFiles) @@ (HostB :> SiteRedir), FALSE),
      ServerSettings((HostA :> SiteFiles) @@ (Star :> SiteProxy), FALSE),
      ServerSettings((Star :> SiteRedir) @@ (StarX :> SiteFiles)
                     @@ (HostB :> SiteProxy), TRUE),
      ServerSettings((HostA :> SiteCookie) @@ (HostB :> SiteProxy), FALSE),
      ServerSettings((HostC :> SiteRedirTwice), FALSE) }

PipeRequests ==
    { WithQuery(Request(has_host, IF has_host THEN host ELSE <<>>, path, cookie,
                        range, FALSE), query) :
        has_host \in BOOLEAN, host \in {HostA, HostB, HostC, Star},
        path \in {<<"/">>, <<"/", "a">>, <<"/", ".", ".", "/", "s">>},
        cookie \in {<<>>, <<"k", "=", "1">>},
        range \in {None, RangeHeader(TRUE, <<"1", "-", "1">>)},
        query \in {<<>>, <<"q">>} }

PipeConns == {1}

ClientOne == V4(<<10, 0, 0, 1>>)

ClientTwo == V4(<<10, 0, 0, 2>>)

UpstreamStatuses == {200, 404}

InitPipe ==
    /\ NoCall
    /\ \E s \in PipeSettings :
          /\ store = <<s>>
          /\ pools = NewPools(1, s.hosts, 0)
    /\ lock = 1
    /\ now = 0
    /\ up \in SUBSET {"x", "y"}
    /\ profile \in {"debug", "release"}
    /\ max_connections = 1
    /\ workers = OneWorker(store[1])
    /\ supervisor = NoSupervisor
    /\ conn = [c \in Conns |-> FreeConn]

NextPipe ==
    \E c \in PipeConns :
        \/ \E addr \in {ClientOne, V6} : Accept(c, addr)
        \/ TaskStart(c)
        \/ \E ok \in BOOLEAN : TlsHandshake(c, ok)
        \/ ProcessMalformed(c)
        \/ \E request \in PipeRequests : Process(c, request)
        \/ Scan(c)
        \/ ConnectAttempt(c)
        \/ MarkAlive(c)
        \/ MarkDead(c)
        \/ \E outcome \in RelayOutcomes, status \in UpstreamStatuses :
              Relay(c, outcome, status)

SpecPipe == InitPipe /\ [][NextPipe]_vars

----------------------------------------------------------------------------
(* C1: host isolation *)

\* the settings a connection took at its start
Snapshot(c) == store[conn[c].snap]

\* C1: when no key of the connection's settings starts with "*" and the
\* request's Host value is not a key, the client is sent the canned 403 and
\* nothing else, no host is selected, no directive of any host is evaluated,
\* no backend pool is entered and nothing is logged
C1_HostIsolation ==
    \A c \in Conns :
        /\ conn[c].parsed
        /\ WildcardKeys(Snapshot(c)) = {}
        /\ conn[c].req.host \notin HostKeys(Snapshot(c))
        => /\ conn[c].pc = "closed"
           /\ Len(conn[c].sock) = 1
           /\ conn[c].sock[1].status = 403
           /\ conn[c].sock[1].body = "Forbidden"
           /\ ~conn[c].used_host.some
           /\ conn[c].visited = <<>>
           /\ conn[c].pool = NoPool
           /\ conn[c].logged = <<>>

\* a request naming a host that is not configured was answered, on a worker
\* without a wildcard entry
C1_Witness ==
    \E c \in Conns :
        /\ conn[c].pc = "closed"
        /\ conn[c].parsed
        /\ conn[c].req.has_host
        /\ WildcardKeys(Snapshot(c)) = {}
        /\ conn[c].req.host \notin HostKeys(Snapshot(c))

----------------------------------------------------------------------------
(* C2: wildcard precedence *)

\* C2: when a key of the connection's settings starts with "*", the entry of
\* such a key is the one used for the request, whatever its Host value, and
\* the directives evaluated are that entry's
C2_WildcardPrecedence ==
    \A c \in Conns :
        conn[c].parsed /\ WildcardKeys(Snapshot(c)) # {}
        => /\ conn[c].used_host.some
           /\ conn[c].used_host.val \in WildcardKeys(Snapshot(c))
           /\ conn[c].visited =
                Walk(Snapshot(c).hosts[conn[c].used_host.val], conn[c].req,
                     1, None, None, <<>>, profile).visited

\* a request whose Host equals an exact key was answered on a worker that
\* has a wildcard entry too
C2_Witness ==
    \E c \in Conns :
        /\ conn[c].pc = "closed"
        /\ conn[c].parsed
        /\ conn[c].req.has_host
        /\ WildcardKeys(Snapshot(c)) # {}
        /\ conn[c].req.host \in HostKeys(Snapshot(c)) \ WildcardKeys(Snapshot(c))
        /\ conn[c].used_host.val # conn[c].req.host

----------------------------------------------------------------------------
(* The specification of a worker whose settings are replaced while its     *)
(* connections are in flight                                               *)

ServerSettingsOld ==
    { ServerSettings((HostA :> SiteFiles) @@ (HostB :> SiteProxy), FALSE),
      ServerSettings((Star :> SiteProxy), TRUE) }

ServerSettingsNew ==
    { ServerSettings((HostA :> SiteRedir), TRUE),
      ServerSettings((HostA :> SiteProxy) @@ (HostB :> SiteFiles), FALSE) }

ServerRequests ==
    { Request(TRUE, HostA, <<"/", "a">>, <<>>, None, FALSE),
      Request(TRUE, HostB, <<"/", "a">>, <<>>, None, FALSE),
      Request(TRUE, HostB, <<"/">>, <<>>, None, FALSE) }

ServerConns == {1, 2}

InitServer ==
    /\ NoCall
    /\ \E s \in ServerSettingsOld :
          /\ store = <<s>>
          /\ pools = NewPools(1, s.hosts, 0)
    /\ lock = 1
    /\ now = 0
    /\ up = {"x"}
    /\ profile = "release"
    /\ max_connections = 2
    /\ workers = OneWorker(store[1])
    /\ supervisor = NoSupervisor
    /\ conn = [c \in Conns |-> FreeConn]

NextServer ==
    \/ \E c \in ServerConns :
        \/ Accept(c, ClientOne)
        \/ TaskStart(c)
        \/ \E ok \in BOOLEAN : TlsHandshake(c, ok)
        \/ ProcessMalformed(c)
        \/ \E request \in ServerRequests : Process(c, request)
        \/ Scan(c)
        \/ ConnectAttempt(c)
        \/ MarkAlive(c)
        \/ MarkDead(c)
        \/ \E outcome \in RelayOutcomes : Relay(c, outcome, 200)
    \/ \E new \in ServerSettingsNew : Update(new)
    \/ \E new \in ServerSettingsNew : UpdateFails(new)

SpecServer == InitServer /\ [][NextServer]_vars

----------------------------------------------------------------------------
(* C4: graceful reconfiguration *)

\* what a connection has observed is what the settings it took at its start
\* say: the handshake is made iff they hold an acceptor, the host is selected
\* among their keys, the directives walked are that host's, and the backend
\* pool entered is that host's in the same settings
C4_SnapshotUsed ==
    \A c \in Conns :
        conn[c].snap # 0 =>
            /\ conn[c].snap \in 1..Len(store)
            /\ conn[c].tls => Snapshot(c).tls_acceptor
            /\ conn[c].parsed => conn[c].tls = Snapshot(c).tls_acceptor
            /\ conn[c].parsed /\ ~conn[c].used_host.some =>
                  SelectableHosts(Snapshot(c), conn[c].req.host) = {}
            /\ conn[c].used_host.some =>
                  /\ conn[c].used_host.val
                        \in SelectableHosts(Snapshot(c), conn[c].req.host)
                  /\ conn[c].visited =
                        Walk(Snapshot(c).hosts[conn[c].used_host.val],
                             conn[c].req, 1, None, None, <<>>, profile).visited
                  /\ conn[c].pc = "closed" /\ conn[c].pool = NoPool =>
                        conn[c].logged =
                          Walk(Snapshot(c).hosts[conn[c].used_host.val],
                               conn[c].req, 1, None, None, <<>>, profile).logged
                  /\ conn[c].pool # NoPool =>
                        /\ conn[c].pool[1] = conn[c].snap
                        /\ conn[c].pool[2] = conn[c].used_host.val
                        /\ conn[c].pool[3] \in
                              MatchingPatterns(
                                 Snapshot(c).hosts[conn[c].used_host.val],
                                 conn[c].req)

\* a step keeps the settings of every connection that stays in flight: the
\* connection keeps its snapshot, and no settings value and no backend state
\* of a pool changes under an update
C4_SnapshotKept ==
    /\ \A c \in Conns :
          conn[c].snap # 0 /\ conn'[c].pc \notin {"free", "spawned"} =>
              conn'[c].snap = conn[c].snap
    /\ \A g \in 1..Len(store) : store'[g] = store[g]
    /\ lock' # lock =>
          \A pid \in DOMAIN pools :
              /\ pools'[pid].alive_state = pools[pid].alive_state
              /\ pools'[pid].current_backend = pools[pid].current_backend
              /\ pools'[pid].cursor_lock = pools[pid].cursor_lock

\* C4: every connection takes one settings snapshot at its start and uses it
\* for the TLS decision, the host selection, the directive walk and the proxy
\* states; an update while the connection is in flight does not change what
\* it observes
C4_GracefulReconfiguration == []C4_SnapshotUsed /\ [][C4_SnapshotKept]_vars

\* a request was answered from a snapshot that an update had replaced, and
\* the settings in force would have answered it otherwise
C4_Witness ==
    \E c \in Conns :
        /\ conn[c].pc = "closed"
        /\ conn[c].used_host.some
        /\ conn[c].snap # lock
        /\ \/ conn[c].used_host.val
                 \notin SelectableHosts(store[lock], conn[c].req.host)
           \/ conn[c].visited #
                 Walk(store[lock].hosts[conn[c].used_host.val], conn[c].req,
                      1, None, None, <<>>, profile).visited

----------------------------------------------------------------------------
(* The specification of the load balancer: two dispatches at a time into   *)
(* one pool of two backends, while the clock runs                          *)

Balanced(options) ==
    ServerSettings((HostA :> <<ReverseProxy(Star, <<BackendX, BackendY>>, options)>>),
                   FALSE)

LBSettings ==
    { Balanced(Options(2, 1, "RoundRobin")),
      Balanced(Options(1, 1, "IPHash")),
      Balanced(Options(0, 2, "RoundRobin")),
      Balanced(Options(0, 2, "IPHash")) }

LBRequest == Request(TRUE, HostA, <<"/">>, <<>>, None, FALSE)

LBConns == {1, 2}

\* the one pool of a worker of LBSettings
ThePool == <<1, HostA, Star>>

InitLB ==
    /\ NoCall
    /\ \E s \in LBSettings :
          /\ store = <<s>>
          /\ pools = NewPools(1, s.hosts, 0)
    /\ lock = 1
    /\ now = 0
    /\ up \in SUBSET {"x", "y"}
    /\ profile = "release"
    /\ max_connections = 2
    /\ workers = OneWorker(store[1])
    /\ supervisor = NoSupervisor
    /\ conn = [c \in Conns |-> FreeConn]

NextLB ==
    \/ \E c \in LBConns :
        \/ \E addr \in {ClientOne, ClientTwo} : Accept(c, addr)
        \/ TaskStart(c)
        \/ Process(c, LBRequest)
        \/ Scan(c)
        \/ ConnectAttempt(c)
        \/ MarkAlive(c)
        \/ MarkDead(c)
        \/ \E outcome \in RelayOutcomes : Relay(c, outcome, 200)
    \/ Tick

SpecLB == InitLB /\ [][NextLB]_vars

----------------------------------------------------------------------------
(* C6: liveness monotonicity *)

\* the step is an iteration of get_next_backend made by connection c
ScanStepBy(c) ==
    /\ conn[c].pc = "select"
    /\ conn'[c].pc # "select" \/ conn'[c].scan_left # conn[c].scan_left

\* a Dead backend without retries whose lb_interval has not elapsed
Frozen(alive_state, lb_interval) ==
    /\ alive_state.state = "Dead"
    /\ alive_state.retries_left = 0
    /\ now < alive_state.since + lb_interval

\* C6: while a backend is Dead with retries_left = 0 and now is before
\* since + lb_interval, no iteration of get_next_backend returns it and none
\* changes its alive_state
C6_LivenessMonotonicity ==
    [][\A c \in Conns :
          ScanStepBy(c) =>
              \A i \in 1..PoolSize(conn[c].pool) :
                  Frozen(pools[conn[c].pool].alive_state[i],
                         PoolDirective(conn[c].pool).options.lb_interval)
                  => /\ pools'[conn[c].pool].alive_state[i]
                          = pools[conn[c].pool].alive_state[i]
                     /\ ~(conn'[c].backend.some /\ conn'[c].backend.val = i - 1)]_vars

\* the backend the last iteration of c's call looked at
JustScanned(c) ==
    LET n == PoolSize(conn[c].pool)
        at == IF PoolDirective(conn[c].pool).options.lb_policy = "RoundRobin"
              THEN pools[conn[c].pool].current_backend
              ELSE conn[c].backend_idx
    IN  ((at + n - 1) % n) + 1

\* a call of get_next_backend has passed a backend that is Dead without
\* retries, a second after it was marked and before lb_interval has elapsed
C6_Witness ==
    \E c \in Conns :
        /\ conn[c].pc = "select"
        /\ conn[c].scan_left > 0
        /\ Frozen(pools[conn[c].pool].alive_state[JustScanned(c)],
                  PoolDirective(conn[c].pool).options.lb_interval)
        /\ now > pools[conn[c].pool].alive_state[JustScanned(c)].since

----------------------------------------------------------------------------
(* C7: round-robin order *)

AllAlive(alive_state) ==
    \A i \in 1..Len(alive_state) : alive_state[i].state = "Alive"

RoundRobinPool(pid) == PoolDirective(pid).options.lb_policy = "RoundRobin"

----------------------------------------------------------------------------
(* C9: a failed revival consumes a retry *)

\* C9: when get_next_backend revived a Dead backend that had retries_left
\* = k > 0 and the connect attempts to it fail, the backend is marked Dead
\* with since = now and retries_left = k - 1
C9_FailedRevivalConsumesRetry ==
    [][\A c \in Conns :
          /\ conn[c].pc = "dead"
          /\ conn'[c].pc = "select"
          /\ conn[c].revived.some
          => pools'[conn[c].pool].alive_state[conn[c].backend.val + 1]
                = Dead(now, conn[c].revived.val - 1)]_vars

----------------------------------------------------------------------------
(* The specification of failover: one dispatch after the other into one    *)
(* pool of two backends, each of which accepts connections throughout or   *)
(* refuses them throughout, while the clock runs                           *)

FailoverSettings ==
    {Balanced(Options(lb_retries, 1, lb_policy)) :
        lb_retries \in {0, 1, 2}, lb_policy \in {"RoundRobin", "IPHash"}}

FailoverConns == {1}

InitFailover ==
    /\ NoCall
    /\ \E s \in FailoverSettings :
          /\ store = <<s>>
          /\ pools = NewPools(1, s.hosts, 0)
    /\ lock = 1
    /\ now = 0
    /\ up \in SUBSET {"x", "y"}
    /\ profile = "release"
    /\ max_connections = 1
    /\ workers = OneWorker(store[1])
    /\ supervisor = NoSupervisor
    /\ conn = [c \in Conns |-> FreeConn]

NextFailover ==
    \/ \E c \in FailoverConns :
        \/ \E addr \in {ClientOne, ClientTwo} : Accept(c, addr)
        \/ TaskStart(c)
        \/ Process(c, LBRequest)
        \/ Scan(c)
        \/ ConnectAttempt(c)
        \/ MarkAlive(c)
        \/ MarkDead(c)
        \/ \E outcome \in RelayOutcomes : Relay(c, outcome, 200)
    \/ Tick

SpecFailover == InitFailover /\ [][NextFailover]_vars

----------------------------------------------------------------------------
(* C8: backend failover *)

\* the dispatch of c made connect attempts to the backend selected first,
\* all of which failed
FirstRefused(c) ==
    /\ conn[c].first.some
    /\ conn[c].first.val \in conn[c].failed
    /\ HostDirectives(c)[conn[c].directive].options.lb_retries > 0

\* a backend of c's pool other than the one selected first is Alive and
\* accepts connections
OtherReachable(c) ==
    \E i \in 1..PoolSize(conn[c].pool) :
        /\ i - 1 # conn[c].first.val
        /\ pools[conn[c].pool].alive_state[i].state = "Alive"
        /\ PoolDirective(conn[c].pool).destinations[i].name \in up

----------------------------------------------------------------------------
(* The specification of the selection race: three requests of one client  *)
(* dispatched at a time into one pool of two backends, within one second:  *)
(* x starts and stops accepting connections, y refuses them throughout     *)

RaceSettings ==
    { Balanced(Options(1, 1, "RoundRobin")), Balanced(Options(1, 1, "IPHash")) }

RaceConns == {1, 2, 3}

InitRace ==
    /\ NoCall
    /\ \E s \in RaceSettings :
          /\ store = <<s>>
          /\ pools = NewPools(1, s.hosts, 0)
    /\ lock = 1
    /\ now = 0
    /\ up = {}
    /\ profile = "release"
    /\ max_connections = Cardinality(RaceConns)
    /\ workers = OneWorker(store[1])
    /\ supervisor = NoSupervisor
    /\ conn = [c \in Conns |-> FreeConn]

NextRace ==
    \/ \E c \in RaceConns :
        \/ conn[c].pc = "free" /\ Accept(c, ClientOne)
        \/ TaskStart(c)
        \/ Process(c, LBRequest)
        \/ Scan(c)
        \/ ConnectAttempt(c)
        \/ MarkAlive(c)
        \/ MarkDead(c)
        \/ \E outcome \in RelayOutcomes : Relay(c, outcome, 200)
    \/ Flip("x")

SpecRace == InitRace /\ [][NextRace]_vars

----------------------------------------------------------------------------
(* C5: selection totality *)

\* C5: a call of get_next_backend under RoundRobin, or under IPHash for an
\* IPv4 client, during which the pool had an Alive backend at every moment
\* from its first iteration on, returns a backend
C5_SelectionTotality ==
    [][\A c \in Conns :
          /\ ScanStepBy(c)
          /\ conn'[c].pc # "select"
          /\ RoundRobinPool(conn[c].pool) \/ conn[c].addr.v4
          /\ ~conn'[c].starved
          => conn'[c].backend.some]_vars

----------------------------------------------------------------------------
(* response.rs of benchmark/cblt: write_chunked_body, and response.rs:     *)
(* send_response_file, on a body source of bytes                           *)

BUFFER_SIZE == 8192

CR == 13

LF == 10

\* b"0123456789ABCDEF"
HEX_DIGITS == <<48, 49, 50, 51, 52, 53, 54, 55, 56, 57, 65, 66, 67, 68, 69, 70>>

\* the inner loop of write_chunked_body: size_buf is filled from its end with
\* HEX_DIGITS[size % 16] while size /= 16 is not 0, and size_buf[idx..] is
\* written
RECURSIVE ChunkSize(_)
ChunkSize(size) ==
    IF size < 16 THEN <<HEX_DIGITS[size + 1]>>
    ELSE ChunkSize(size \div 16) \o <<HEX_DIGITS[(size % 16) + 1]>>

\* what one iteration of write_chunked_body writes for the n bytes read
Chunk(data) == ChunkSize(Len(data)) \o <<CR, LF>> \o data \o <<CR, LF>>

\* b"0\r\n\r\n"
FinalChunk == <<48, CR, LF, CR, LF>>

\* a body source of len bytes: the bytes seed, seed + 1, ... modulo 256
Source(len, seed) == [i \in 1..len |-> (seed + i - 1) % 256]

\* the value of a hexadecimal digit, -1 for another byte
HexValue(byte) ==
    IF byte >= 48 /\ byte <= 57 THEN byte - 48
    ELSE IF byte >= 65 /\ byte <= 70 THEN byte - 55
    ELSE IF byte >= 97 /\ byte <= 102 THEN byte - 87
    ELSE -1

\* the chunk-size line that starts at position i of wire: its value and the
\* position after its CRLF, or None
RECURSIVE SizeLine(_, _, _, _)
SizeLine(wire, i, value, digits) ==
    IF i > Len(wire) THEN None
    ELSE IF HexValue(wire[i]) >= 0
    THEN SizeLine(wire, i + 1, 16 * value + HexValue(wire[i]), digits + 1)
    ELSE IF digits > 0 /\ wire[i] = CR /\ i + 1 <= Len(wire) /\ wire[i + 1] = LF
    THEN Some([size |-> value, next |-> i + 2])
    ELSE None

\* whether CRLF stands at position i of wire
CrlfAt(wire, i) == i + 1 <= Len(wire) /\ wire[i] = CR /\ wire[i + 1] = LF

\* a decoder of the chunked transfer coding from position i on, with the
\* bytes decoded so far: the body, or None when wire is not a chunked body
RECURSIVE Dechunk(_, _, _)
DechunkData(wire, line, body) ==
    IF line.size = 0
    THEN IF CrlfAt(wire, line.next) /\ line.next + 1 = Len(wire)
         THEN Some(body) ELSE None
    ELSE IF CrlfAt(wire, line.next + line.size)
    THEN Dechunk(wire, line.next + line.size + 2,
                 body \o SubSeq(wire, line.next, line.next + line.size - 1))
    ELSE None

Dechunk(wire, i, body) ==
    IF SizeLine(wire, i, 0, 0).some
    THEN DechunkData(wire, SizeLine(wire, i, 0, 0).val, body)
    ELSE None

----------------------------------------------------------------------------
(* The specification of the streamed bodies: Init draws a body source, the *)
(* actions are the reads of write_chunked_body and send_response_file      *)

ChunkLengths == {0, 1, 15, 16, 255, 256, BUFFER_SIZE - 1, BUFFER_SIZE, BUFFER_SIZE + 1}

ChunkSeeds == {0, 10, 48}

\* a read of the source may return fewer bytes than the buffer holds
ShortReads == {1, 16, 255}

MaxShortReads == 2

InitChunk ==
    /\ \/ call \in [fn : {"write_chunked_body"}, len : ChunkLengths,
                    seed : ChunkSeeds]
       \/ call \in [fn : {"send_response_file"}, len : ChunkLengths,
                    seed : ChunkSeeds, gzip_supported : BOOLEAN]
    /\ ret = NoRet
    /\ NoServer

\* the writer's progress: the bytes read, the bytes written, the short reads
Written == IF ret = NoRet THEN [fn |-> "writing", pos |-> 0, wire |-> <<>>, short |-> 0]
           ELSE ret

\* write_chunked_body, one iteration whose read returns n > 0 bytes
ReadChunk(n) ==
    /\ call.fn = "write_chunked_body"
    /\ Written.fn = "writing"
    /\ n >= 1 /\ n <= BUFFER_SIZE /\ Written.pos + n <= call.len
    /\ n < BUFFER_SIZE /\ Written.pos + n < call.len => Written.short < MaxShortReads
    /\ ret' = [fn |-> "writing",
               pos |-> Written.pos + n,
               wire |-> Written.wire \o
                        Chunk(SubSeq(Source(call.len, call.seed),
                                     Written.pos + 1, Written.pos + n)),
               short |-> IF n < BUFFER_SIZE /\ Written.pos + n < call.len
                         THEN Written.short + 1 ELSE Written.short]
    /\ UNCHANGED call
    /\ UNCHANGED server_vars

\* write_chunked_body, the read that returns 0: the loop ends and the final
\* chunk is written
ReadEnd ==
    /\ call.fn = "write_chunked_body"
    /\ Written.fn = "writing"
    /\ Written.pos = call.len
    /\ ret' = [fn |-> "write_chunked_body", framing |-> "chunked",
               wire |-> Written.wire \o FinalChunk]
    /\ UNCHANGED call
    /\ UNCHANGED server_vars

\* send_response_file of response.rs on the response file_response builds:
\* the Content-Length header, then tokio::io::copy of the body
SendResponseFile ==
    /\ call.fn = "send_response_file"
    /\ ret = NoRet
    /\ ret' = [fn |-> "send_response_file", framing |-> "Content-Length",
               content_length |-> call.len,
               wire |-> BodyCopied(Source(call.len, call.seed), 0,
                                   call.gzip_supported)]
    /\ UNCHANGED call
    /\ UNCHANGED server_vars

NextChunk ==
    \/ \E n \in ShortReads \cup {BUFFER_SIZE} : ReadChunk(n)
    \/ ReadChunk(call.len - Written.pos)
    \/ ReadEnd
    \/ SendResponseFile

SpecChunk == InitChunk /\ [][NextChunk]_vars

----------------------------------------------------------------------------
(* C11: chunked round-trip *)

\* the body written by write_chunked_body decodes to the bytes of its source
ChunkedBodyRoundTrip ==
    ret.fn = "write_chunked_body"
    => Dechunk(ret.wire, 1, <<>>) = Some(Source(call.len, call.seed))

\* C11: the body a streamed file response puts on the wire is a chunked body
\* that decodes to exactly the bytes of the source, for every source
C11_ChunkedRoundTrip ==
    /\ ChunkedBodyRoundTrip
    /\ ret.fn = "send_response_file"
       => /\ ret.framing = "chunked"
          /\ Dechunk(ret.wire, 1, <<>>) = Some(Source(call.len, call.seed))

----------------------------------------------------------------------------
(* C12: redirect *)

\* the first n pieces of destination with every {uri} replaced by path
RECURSIVE Substituted(_, _, _)
Substituted(destination, path, n) ==
    IF n = 0 THEN <<>>
    ELSE Substituted(destination, path, n - 1)
         \o (IF destination[n] = URI THEN path ELSE destination[n])

\* the Redir directives the walk of c evaluated
RedirsReached(c) ==
    {k \in 1..Len(conn[c].visited) :
        HostDirectives(c)[conn[c].visited[k]].kind = "Redir"}

\* C12: when the walk reaches a Redir directive, the one response is 302
\* with an empty body and a Location that is the destination with every {uri}
\* replaced by the request path without the query string, 302 is logged, and
\* the Redir is the last directive evaluated
C12_Redirect ==
    \A c \in Conns :
        conn[c].pc = "closed" /\ conn[c].used_host.some
        => \A k \in RedirsReached(c) :
              /\ k = Len(conn[c].visited)
              /\ conn[c].sock =
                   <<Response(302,
                        Substituted(HostDirectives(c)[conn[c].visited[k]].destination,
                                    conn[c].req.path,
                                    Len(HostDirectives(c)[conn[c].visited[k]].destination)),
                        -1, <<>>, "")>>
              /\ conn[c].logged = <<302>>

\* a request with a query string was redirected by a Redir that names {uri}
\* twice and stands before another directive
C12_Witness ==
    \E c \in Conns :
        /\ conn[c].pc = "closed" /\ conn[c].used_host.some
        /\ conn[c].req.query # <<>>
        /\ conn[c].req.path = <<"/", "a">>
        /\ \E k \in RedirsReached(c) :
              /\ HostDirectives(c)[conn[c].visited[k]].destination = ToUriTwice
              /\ conn[c].visited[k] < Len(HostDirectives(c))
        /\ conn[c].sock[1].location = <<"/", "a", "?", "u", "=", "/", "a">>

----------------------------------------------------------------------------
(* The specification of admission: more connections than permits arrive at *)
(* one port, with and without TLS, and end on every path                   *)

AdmitSettings ==
    { ServerSettings((HostA :> SiteFiles) @@ (HostB :> SiteProxy), tls) :
        tls \in BOOLEAN }

AdmitRequests ==
    { Request(TRUE, host, <<"/", "a">>, <<>>, None, FALSE) :
        host \in {HostA, HostB} }

InitAdmit ==
    /\ NoCall
    /\ \E s \in AdmitSettings :
          /\ store = <<s>>
          /\ pools = NewPools(1, s.hosts, 0)
    /\ lock = 1
    /\ now = 0
    /\ up \in {{}, {"y"}}
    /\ profile = "release"
    /\ max_connections \in 1..(MaxConns - 1)
    /\ workers = OneWorker(store[1])
    /\ supervisor = NoSupervisor
    /\ conn = [c \in Conns |-> FreeConn]

NextAdmit ==
    \E c \in Conns :
        \/ Accept(c, ClientOne)
        \/ TaskStart(c)
        \/ \E ok \in BOOLEAN : TlsHandshake(c, ok)
        \/ ProcessMalformed(c)
        \/ \E request \in AdmitRequests : Process(c, request)
        \/ Scan(c)
        \/ ConnectAttempt(c)
        \/ MarkAlive(c)
        \/ MarkDead(c)
        \/ \E outcome \in RelayOutcomes : Relay(c, outcome, 200)

SpecAdmit == InitAdmit /\ [][NextAdmit]_vars

----------------------------------------------------------------------------
(* C13: admission control *)

\* the connection tasks that hold a permit
PermitHolders == {c \in Conns : conn[c].permit}

\* C13: the tasks holding a permit are never more than max_connections, a
\* task holds its permit exactly from its spawn to its exit, whichever way
\* it exits, and the permits held and the permits available always add up to
\* max_connections
C13_AdmissionControl ==
    /\ Cardinality(PermitHolders) <= max_connections
    /\ \A c \in Conns : conn[c].permit = (conn[c].pc \notin {"free", "closed"})
    /\ available_permits >= 0
    /\ available_permits + Cardinality(PermitHolders) = max_connections

\* max_connections tasks hold a permit while another slot is free, after
\* a task has ended on a TLS failure and another on a 502
C13_Witness ==
    /\ Cardinality(PermitHolders) = max_connections
    /\ \E c \in Conns : conn[c].pc \in {"free", "closed"}
    /\ \E c \in Conns : conn[c].pc = "closed" /\ conn[c].result = "tls_error"
    /\ \E c \in Conns : conn[c].pc = "closed" /\ conn[c].logged = <<502>>

----------------------------------------------------------------------------
(* The specification of a stop: the worker of one port binds, accepts      *)
(* connections one at a time while fewer permits than connections exist,   *)
(* and is told to stop at any moment.  The steps of the worker's task are  *)
(* taken as soon as they can be, and every client carries its exchange to  *)
(* its end                                                                 *)

StopSettings ==
    { ServerSettings((HostA :> SiteFiles), tls) : tls \in BOOLEAN }

StopRequest == Request(TRUE, HostA, <<"/", "a">>, <<>>, None, FALSE)

StopConns == {1, 2}

InitStop ==
    /\ NoCall
    /\ \E s \in StopSettings :
          /\ store = <<s>>
          /\ workers = [p \in Ports |-> IF p = MainPort THEN Worker(s, "bind")
                                       ELSE NoWorker]
    /\ pools = <<>>
    /\ lock = 1
    /\ now = 0
    /\ up = {}
    /\ profile = "release"
    /\ supervisor = NoSupervisor
    /\ max_connections = 1
    /\ conn = [c \in Conns |-> FreeConn]

\* a step of the worker's task
LoopStep ==
    \/ \E ok \in BOOLEAN : Bind(MainPort, ok)
    \/ \E built \in BOOLEAN : LoopHead(MainPort, built)
    \/ SelectNotified(MainPort)
    \/ \E c \in StopConns : AcquireSpawn(c)

\* a step of a connection's task
TaskStep(c) ==
    \/ TaskStart(c)
    \/ \E ok \in BOOLEAN : TlsHandshake(c, ok)
    \/ ProcessMalformed(c)
    \/ Process(c, StopRequest)

NextStop ==
    \/ LoopStep
    \/ SelectAccept(MainPort, ClientOne)
    \/ SelectAcceptErr(MainPort)
    \/ Stop(MainPort)
    \/ \E c \in StopConns : TaskStep(c)

SpecStop ==
    /\ InitStop
    /\ [][NextStop]_vars
    /\ WF_vars(LoopStep)
    /\ \A c \in StopConns : WF_vars(TaskStep(c))

----------------------------------------------------------------------------
(* C14: graceful stop *)

\* the accept loop of MainPort's worker has ended
LoopEnded == workers[MainPort].pc \in {"exited", "failed"}

\* the connections whose task was spawned and has not ended
InFlight == {c \in Conns : conn[c].pc \notin {"free", "closed"}}

----------------------------------------------------------------------------
(* The specification of the supervisor: DesiredStates arrive one after the *)
(* other, each applied port by port while the accept loops of the ports    *)
(* run and their tasks, which are counted, come and go.  A worker's cell   *)
(* is the settings field of its record                                     *)

HostsFiles == (HostA :> SiteFiles)

HostsRedir == (HostA :> SiteRedir)

\* a DesiredState: the Server of each port it names
Desired(s80, s443, s8080) ==
    [p \in Ports |-> IF p = 80 THEN s80 ELSE IF p = 443 THEN s443 ELSE s8080]

\* two ports; one of them replaced by a third and the other given new
\* hosts; three ports, one with TLS material that cannot be loaded; and no
\* port at all
DesiredStates ==
    { Desired(Some(Server(HostsFiles, FALSE, TRUE)),
              Some(Server(HostsFiles, TRUE, TRUE)), None),
      Desired(None, Some(Server(HostsRedir, TRUE, TRUE)),
              Some(Server(HostsFiles, FALSE, TRUE))),
      Desired(Some(Server(HostsRedir, FALSE, TRUE)),
              Some(Server(HostsRedir, TRUE, FALSE)),
              Some(Server(HostsFiles, FALSE, TRUE))),
      Desired(None, None, None) }

InitSupervisor ==
    /\ NoCall
    /\ store = <<>>
    /\ lock = 0
    /\ pools = <<>>
    /\ now = 0
    /\ up = {}
    /\ profile = "release"
    /\ workers = [p \in Ports |-> NoWorker]
    /\ supervisor = NoSupervisor
    /\ max_connections = 1
    /\ conn = [c \in Conns |-> FreeConn]

NextSupervisor ==
    \/ \E D \in DesiredStates : Apply(D)
    \/ \E p \in Ports :
          \/ StopWorker(p)
          \/ Drained(p)
          \/ UpdateWorker(p)
          \/ StartWorker(p)
          \/ \E ok \in BOOLEAN : Bind(p, ok)
          \/ \E built \in BOOLEAN : LoopHead(p, built)
          \/ SelectNotified(p)
          \/ SelectAccept(p, ClientOne)
          \/ SelectAcceptErr(p)
          \/ SpawnCounted(p)
          \/ TaskEnds(p)

SpecSupervisor == InitSupervisor /\ [][NextSupervisor]_vars

----------------------------------------------------------------------------
(* C15: supervisor reconciliation *)

\* a DesiredState was received and nothing of it is left to do
Reconciled ==
    /\ supervisor.applies > 0
    /\ \A p \in Ports : supervisor.todo[p] = "none"

\* the Server the DesiredState has for a port can be built
Buildable(p) == supervisor.desired[p].some /\ supervisor.desired[p].val.loads

----------------------------------------------------------------------------
(* C16: a failed reload keeps the old configuration *)

\* a call of ServerWorker::update returns an error in this step
UpdateFailsNow ==
    /\ workers'[MainPort].last_update = "err"
    /\ workers[MainPort].last_update # "err"

\* the task of a connection starts in this step
StartsNow(c) == conn[c].pc = "spawned" /\ conn'[c].pc # "spawned"

\* C16: the worker's cell holds the settings of the last update that
\* returned Ok; a call of update that returns an error leaves the cell, the
\* settings values, the proxy states and the connections as they were; and
\* a task that starts after the failed call works with the settings the
\* cell held before it
C16_FailedReloadKeepsOld ==
    /\ [](workers[MainPort].settings = store[lock])
    /\ [][UpdateFailsNow =>
            /\ workers'[MainPort].settings = workers[MainPort].settings
            /\ store' = store /\ lock' = lock /\ pools' = pools
            /\ conn' = conn]_vars
    /\ [][\A c \in Conns :
            StartsNow(c) /\ workers[MainPort].last_update = "err" =>
                /\ conn'[c].snap = lock
                /\ store[conn'[c].snap] = workers[MainPort].settings]_vars

\* a request was answered 200 by the file server of the first settings by a
\* task that started after an update had failed
C16_Witness ==
    \E c \in Conns :
        /\ conn[c].pc = "closed"
        /\ conn[c].update_seen = "err"
        /\ workers[MainPort].last_update = "err"
        /\ Len(store) = 1
        /\ conn[c].snap = 1
        /\ conn[c].used_host.some
        /\ store[1].hosts[conn[c].used_host.val] = SiteFiles
        /\ conn[c].logged = <<200>>

----------------------------------------------------------------------------
(* C18: visibility of an update *)

\* C18: a task that starts works with the settings of the last update that
\* returned, the cell never goes back to settings it held before, so a task
\* that starts after an update never works with the settings the worker was
\* constructed with; and a request to a host whose new directives are a
\* redirect is answered 302 when its task started after the update
C18_UpdateVisible ==
    /\ [][/\ lock' >= lock
          /\ \A c \in Conns :
                StartsNow(c) => conn'[c].snap = lock /\ lock = Len(store)]_vars
    /\ [](\A c \in Conns :
            /\ conn[c].update_seen = "ok" => conn[c].snap > 1
            /\ /\ conn[c].pc = "closed"
               /\ conn[c].snap > 1
               /\ conn[c].used_host.some
               => /\ conn[c].used_host.val \in DOMAIN store[conn[c].snap].hosts
                  /\ store[conn[c].snap].hosts[conn[c].used_host.val] = SiteRedir
                        => conn[c].logged = <<302>>)

\* the file-serving host of the first settings was replaced by a redirect
\* host, and a request to it whose task started after the update was
\* answered 302
C18_Witness ==
    \E c \in Conns :
        /\ conn[c].pc = "closed"
        /\ conn[c].update_seen = "ok"
        /\ conn[c].snap = 2
        /\ conn[c].used_host.some
        /\ conn[c].used_host.val \in DOMAIN store[1].hosts
        /\ store[1].hosts[conn[c].used_host.val] = SiteFiles
        /\ store[2].hosts[conn[c].used_host.val] = SiteRedir
        /\ conn[c].logged = <<302>>

----------------------------------------------------------------------------
(* C17: port isolation *)

\* the worker of a port fails in this step: its bind or the build of its
\* client returns an error, its accept() returns an error, or it could not
\* be constructed or updated because its TLS material does not load
FailsNow(p) ==
    \/ workers'[p].pc \in {"failed", "deaf"} /\ workers[p].pc # workers'[p].pc
    \/ supervisor'.outcome[p] = "err" /\ supervisor.outcome[p] # "err"

\* C17: a step in which the worker of one port fails leaves the worker of
\* every other port, and what the supervisor has left to do for it, as they
\* were; and the accept loop of a worker returns Ok only after that worker
\* itself was told to stop
C17_PortIsolation ==
    /\ [][\A p \in Ports :
            FailsNow(p) =>
                \A q \in Ports \ {p} :
                    /\ workers'[q] = workers[q]
                    /\ supervisor'.todo[q] = supervisor.todo[q]
                    /\ supervisor'.outcome[q] = supervisor.outcome[q]]_vars
    /\ [](\A q \in Ports : workers[q].pc = "exited" => ~workers[q].is_running)

\* the bind of port 80 failed and the new TLS material of port 443 did not
\* load, while port 8080 was started, has a task in flight and waits in
\* accept
C17_Witness ==
    /\ workers[80].pc = "failed"
    /\ supervisor.outcome[443] = "err"
    /\ supervisor.applies = 1
    /\ workers[443].pc = "none"
    /\ workers[8080].pc = "select"
    /\ workers[8080].is_running
    /\ workers[8080].in_flight = 1

----------------------------------------------------------------------------
(* Configuration: config.rs build_config over a KDL document.  A document  *)
(* is the sequence of its nodes; a node has a name, entries and children;  *)
(* an entry is a string or a value of another type                         *)

Node(name, entries, children) ==
    [name |-> name, entries |-> entries, children |-> children]

Str(value) == [string |-> TRUE, value |-> value]

Num(value) == [string |-> FALSE, value |-> value]

Ok(v) == [ok |-> TRUE, val |-> v]

Err(details) == [ok |-> FALSE, err |-> details]

\* get_string_args: the values of the entries that are strings
get_string_args(node) ==
    LET strings == SelectSeq(node.entries, LAMBDA e : e.string)
    IN  [i \in 1..Len(strings) |-> strings[i].value]

\* str::parse::<humantime::Duration>().as_secs() on a number followed by one
\* of the units s, m and h; anything else the inputs hold is an error
parse_duration(s) ==
    IF Len(s) < 2 THEN None
    ELSE LET number == parse_u64(SubSeq(s, 1, Len(s) - 1))
             unit == s[Len(s)]
         IN  IF ~number.some THEN None
             ELSE IF unit = "s" THEN Some(number.val)
             ELSE IF unit = "m" THEN Some(60 * number.val)
             ELSE IF unit = "h" THEN Some(3600 * number.val)
             ELSE None

RoundRobinName == <<"r", "o", "u", "n", "d", "_", "r", "o", "b", "i", "n">>

IpHashName == <<"i", "p", "_", "h", "a", "s", "h">>

CookieName == <<"c", "o", "o", "k", "i", "e">>

\* the options parse_reverse_proxy_options starts from
DefaultOptions == Options(2, 60, "RoundRobin")

\* one turn of the loop of parse_reverse_proxy_options: the option a child
\* names is set from its first string argument; a child of any other name,
\* a policy of any other name and an argument that does not parse are errors
OptionSet(options, child) ==
    LET args == get_string_args(child)
    IN  CASE child.name = "lb_retries" ->
               IF args = <<>> THEN Ok([options EXCEPT !.lb_retries = 2])
               ELSE IF parse_u64(args[1]).some
               THEN Ok([options EXCEPT !.lb_retries = parse_u64(args[1]).val])
               ELSE Err("ParseIntError")
          [] child.name = "lb_interval" ->
               IF args = <<>> THEN Ok([options EXCEPT !.lb_interval = 10])
               ELSE IF parse_duration(args[1]).some
               THEN Ok([options EXCEPT
                           !.lb_interval = parse_duration(args[1]).val])
               ELSE Err("DurationError")
          [] child.name = "lb_timeout" ->
               IF args = <<>> \/ parse_duration(args[1]).some
               THEN Ok(options) ELSE Err("DurationError")
          [] child.name = "lb_policy" ->
               IF args = <<>> THEN Ok(options)
               ELSE IF args[1] = RoundRobinName
               THEN Ok([options EXCEPT !.lb_policy = "RoundRobin"])
               ELSE IF args[1] = IpHashName
               THEN Ok([options EXCEPT !.lb_policy = "IPHash"])
               ELSE Err("Unknown lb_policy")
          [] OTHER -> Err("Unknown reverse_proxy option")

RECURSIVE OptionsFrom(_, _, _)
OptionsFrom(children, i, options) ==
    IF i > Len(children) THEN Ok(options)
    ELSE LET set == OptionSet(options, children[i])
         IN  IF set.ok THEN OptionsFrom(children, i + 1, set.val) ELSE set

parse_reverse_proxy_options(node) ==
    OptionsFrom(node.children, 1, DefaultOptions)

\* one arm of build_config's match on the name of a host's child
DirectiveOf(child) ==
    LET args == get_string_args(child)
    IN  CASE child.name = "root" ->
               IF Len(args) >= 2
               THEN Ok(Root(args[1], args[2],
                            IF Len(args) >= 3 THEN Some(args[3]) ELSE None))
               ELSE Err("Invalid 'root' directive")
          [] child.name = "file_server" -> Ok(FileServer)
          [] child.name = "reverse_proxy" ->
               IF Len(args) >= 2
               THEN LET options == parse_reverse_proxy_options(child)
                    IN  IF options.ok
                        THEN Ok(ReverseProxy(args[1], Tail(args), options.val))
                        ELSE options
               ELSE Err("Invalid 'reverse_proxy' directive")
          [] child.name = "redir" ->
               IF args # <<>> THEN Ok(Redir(args[1]))
               ELSE Err("Invalid 'redir' directive")
          [] child.name = "redirifnotcookie" ->
               IF args = <<>> THEN Err("Invalid 'redir' directive")
               ELSE IF Len(args) = 1 THEN Err("panic")
               ELSE Ok(RedirIfNotCookie(args[1], args[2]))
          [] child.name = "tls" ->
               IF Len(args) >= 2 THEN Ok(TlS)
               ELSE Err("Invalid 'tls' directive")
          [] OTHER -> Err("Unknown directive")

RECURSIVE DirectivesFrom(_, _, _)
DirectivesFrom(children, i, directives) ==
    IF i > Len(children) THEN Ok(directives)
    ELSE LET directive == DirectiveOf(children[i])
         IN  IF directive.ok
             THEN DirectivesFrom(children, i + 1,
                                 Append(directives, directive.val))
             ELSE directive

RECURSIVE HostsFrom(_, _, _)
HostsFrom(doc, i, hosts) ==
    IF i > Len(doc) THEN Ok(hosts)
    ELSE LET directives == DirectivesFrom(doc[i].children, 1, <<>>)
         IN  IF ~directives.ok THEN directives
             ELSE IF directives.val = <<>> THEN Err("No directives specified")
             ELSE IF doc[i].name \in DOMAIN hosts THEN Err("Host already exists")
             ELSE HostsFrom(doc, i + 1, hosts @@ (doc[i].name :> directives.val))

build_config(doc) == HostsFrom(doc, 1, <<>>)

----------------------------------------------------------------------------
(* The specification of build_config: Init draws a document, the action    *)
(* builds its configuration                                                *)

ApiPattern == <<"/", "a", "p", "i", "/", "*">>

Backend1 == <<"b", "1">>

Backend2 == <<"b", "2">>

Seconds(n) == <<Digits[n + 1], "s">>

\* reverse_proxy "/api/*" "b1" "b2" with the children given
ProxyNode(children) ==
    Node("reverse_proxy", <<Str(ApiPattern), Str(Backend1), Str(Backend2)>>,
         children)

\* the block of test_reverse_proxy_with_options
HealthOptions ==
    << Node("health_uri", <<Str(<<"/", "h">>)>>, <<>>),
       Node("health_interval", <<Str(<<"1", "0", "s">>)>>, <<>>),
       Node("health_timeout", <<Str(Seconds(2))>>, <<>>),
       Node("lb_policy", <<Str(RoundRobinName)>>, <<>>) >>

\* the block of test_reverse_proxy_with_cookie_lb_policy
CookieOptions ==
    << Node("lb_policy", <<Str(CookieName)>>,
            << Node("lb_cookie_name", <<Str(<<"k">>)>>, <<>>),
               Node("lb_cookie_path", <<Str(<<"/">>)>>, <<>>),
               Node("lb_cookie_max_age", <<Str(<<"3", "6", "0", "0">>)>>, <<>>) >>) >>

\* the options the parser names, with arguments that parse, that do not,
\* that are not strings, and without arguments
LbOptions ==
    << Node("lb_retries", <<Str(<<"3">>)>>, <<>>),
       Node("lb_interval", <<Str(<<"1", "0", "s">>)>>, <<>>),
       Node("lb_timeout", <<Str(Seconds(2))>>, <<>>),
       Node("lb_policy", <<Str(IpHashName)>>, <<>>) >>

RootNode == Node("root", <<Str(Star), Str(<<WWW>>)>>, <<>>)

ChildNodes ==
    { RootNode,
      Node("root", <<Str(Star)>>, <<>>),
      Node("file_server", <<>>, <<>>),
      ProxyNode(<<>>),
      ProxyNode(LbOptions),
      ProxyNode(HealthOptions),
      ProxyNode(CookieOptions),
      ProxyNode(<<Node("lb_retries", <<Num(<<"3">>)>>, <<>>)>>),
      ProxyNode(<<Node("lb_retries", <<Str(<<"-", "1">>)>>, <<>>)>>),
      ProxyNode(<<Node("lb_interval", <<Str(<<"1", "0">>)>>, <<>>)>>),
      Node("reverse_proxy", <<Str(ApiPattern)>>, <<>>),
      Node("redir", <<Str(ToUri)>>, <<>>),
      Node("redirifnotcookie", <<Str(<<"k">>), Str(ToUri)>>, <<>>),
      Node("redirifnotcookie", <<Str(<<"k">>)>>, <<>>),
      Node("tls", <<Str(<<"c">>), Str(<<"k">>)>>, <<>>),
      Node("bogus", <<>>, <<>>) }

\* the documents of the tests of config.rs
TestSimple == <<Node(HostA, <<>>, <<RootNode, Node("file_server", <<>>, <<>>)>>)>>

TestComplicated ==
    << Node(HostA, <<>>, <<RootNode, Node("file_server", <<>>, <<>>),
                           Node("reverse_proxy",
                                <<Str(ApiPattern), Str(Backend1)>>, <<>>)>>),
       Node(HostB, <<>>, <<Node("redir", <<Str(ToUri)>>, <<>>)>>) >>

TestTls ==
    <<Node(HostA, <<>>, <<RootNode, Node("file_server", <<>>, <<>>),
                          Node("tls", <<Str(<<"c">>), Str(<<"k">>)>>, <<>>)>>)>>

TestReverseProxyWithOptions == <<Node(HostA, <<>>, <<ProxyNode(HealthOptions)>>)>>

TestReverseProxyWithCookie == <<Node(HostA, <<>>, <<ProxyNode(CookieOptions)>>)>>

TestDocs ==
    { TestSimple, TestComplicated, TestTls, TestReverseProxyWithOptions,
      TestReverseProxyWithCookie }

\* the documents of one host with up to two children, of two hosts of one
\* name, of a host without children, and of the tests
ConfigDocs ==
    {<<Node(HostA, <<>>, <<a>>)>> : a \in ChildNodes}
    \cup {<<Node(HostA, <<>>, <<a, b>>)>> : a \in ChildNodes, b \in ChildNodes}
    \cup {<<Node(HostA, <<>>, <<RootNode>>), Node(HostA, <<>>, <<RootNode>>)>>,
          <<Node(HostA, <<>>, <<>>)>>}
    \cup TestDocs

InitConfig ==
    /\ call \in [fn : {"build_config"}, doc : ConfigDocs]
    /\ ret = NoRet
    /\ NoServer

BuildConfig ==
    /\ call.fn = "build_config"
    /\ ret = NoRet
    /\ ret' = [fn |-> "build_config", result |-> build_config(call.doc)]
    /\ UNCHANGED call
    /\ UNCHANGED server_vars

NextConfig == BuildConfig

SpecConfig == InitConfig /\ [][NextConfig]_vars

----------------------------------------------------------------------------
(* C19: configuration acceptance asserted by the tests *)

\* the blocks the parser's options are made of are accepted: the documents
\* of test_simple, test_complicated and test_tls, and a reverse_proxy with
\* lb_retries, lb_interval, lb_timeout and lb_policy
AcceptedDocs ==
    ret.fn = "build_config"
    /\ call.doc \in {TestSimple, TestComplicated, TestTls,
                     <<Node(HostA, <<>>, <<ProxyNode(LbOptions)>>)>>}
    => ret.result.ok

\* C19: build_config returns Ok for the document of each test of config.rs:
\* the root/file_server, redir and tls hosts, the reverse_proxy block with
\* health_uri, health_interval, health_timeout and lb_policy "round_robin",
\* and the one with lb_policy "cookie" and its nested options
C19_TestsAccepted ==
    ret.fn = "build_config" /\ call.doc \in TestDocs => ret.result.ok

----------------------------------------------------------------------------
(* The specification of declaration order: a host with two ReverseProxy    *)
(* directives of different patterns and backends and a Redir between them, *)
(* and the same host with the two ReverseProxy directives swapped          *)

ProxyS == ReverseProxy(<<"/", "s", "*">>, <<BackendX>>, Options(1, 1, "RoundRobin"))

ProxyA == ReverseProxy(<<"/", "a", "*">>, <<BackendY>>, Options(1, 1, "RoundRobin"))

OrderSettings ==
    { ServerSettings((HostA :> <<ProxyS, Redir(ToUri), ProxyA>>), FALSE),
      ServerSettings((HostA :> <<ProxyA, Redir(ToUri), ProxyS>>), FALSE) }

OrderRequests ==
    { Request(TRUE, HostA, path, <<>>, None, FALSE) :
        path \in {<<"/">>, <<"/", "a">>, <<"/", "s">>} }

OrderConns == {1}

InitOrder ==
    /\ NoCall
    /\ \E s \in OrderSettings :
          /\ store = <<s>>
          /\ pools = NewPools(1, s.hosts, 0)
    /\ lock = 1
    /\ now = 0
    /\ up \in SUBSET {"x", "y"}
    /\ profile \in {"debug", "release"}
    /\ max_connections = 1
    /\ workers = OneWorker(store[1])
    /\ supervisor = NoSupervisor
    /\ conn = [c \in Conns |-> FreeConn]

NextOrder ==
    \E c \in OrderConns :
        \/ Accept(c, ClientOne)
        \/ TaskStart(c)
        \/ ProcessMalformed(c)
        \/ \E request \in OrderRequests : Process(c, request)
        \/ Scan(c)
        \/ ConnectAttempt(c)
        \/ MarkAlive(c)
        \/ MarkDead(c)
        \/ \E outcome \in RelayOutcomes : Relay(c, outcome, 200)

SpecOrder == InitOrder /\ [][NextOrder]_vars

----------------------------------------------------------------------------
(* C20: declaration order of proxying *)

\* the directive at which the walk of a connection went to the proxy
DispatchedAt(c) == HostDirectives(c)[conn[c].directive]

\* C20: a connection is handed to the proxy at a ReverseProxy directive only
\* when that directive's own pattern matches the path of the request, and
\* the pool it is relayed through is the one of that directive: of its
\* pattern and of its destinations
C20_DeclarationOrder ==
    \A c \in Conns :
        conn[c].pool # NoPool =>
            /\ DispatchedAt(c).kind = "ReverseProxy"
            /\ matches_pattern(DispatchedAt(c).pattern, conn[c].req.path)
            /\ conn[c].pool[3] = DispatchedAt(c).pattern
            /\ PoolDirective(conn[c].pool).destinations
                  = DispatchedAt(c).destinations

----------------------------------------------------------------------------
(* The specification of the walk past a FileServer directive: one request  *)
(* at a time for a host whose FileServer directive is followed by a Redir  *)
(* or by a ReverseProxy directive                                          *)

FilesThenRedir == <<Root(Star, <<WWW>>, None), FileServer, Redir(ToUri)>>

FilesThenProxy ==
    <<Root(Star, <<WWW>>, None), FileServer,
      ReverseProxy(Star, <<BackendX>>, Options(1, 1, "RoundRobin"))>>

FallSettings ==
    { ServerSettings((HostA :> FilesThenRedir), FALSE),
      ServerSettings((HostA :> FilesThenProxy), FALSE) }

FallRequests ==
    { Request(TRUE, HostA, path, <<>>, range, gzip) :
        path \in {<<"/">>, <<"/", "a">>, <<"/", "b">>,
                  <<"/", ".", ".", "/", "s">>,
                  <<"/", "/", "s">>},
        range \in {None, RangeHeader(TRUE, <<"1", "-", "1">>)},
        gzip \in BOOLEAN }

FallConns == {1}

InitFall ==
    /\ NoCall
    /\ \E s \in FallSettings :
          /\ store = <<s>>
          /\ pools = NewPools(1, s.hosts, 0)
    /\ lock = 1
    /\ now = 0
    /\ up \in SUBSET {"x"}
    /\ profile \in {"debug", "release"}
    /\ max_connections = 1
    /\ workers = OneWorker(store[1])
    /\ supervisor = NoSupervisor
    /\ conn = [c \in Conns |-> FreeConn]

NextFall ==
    \E c \in FallConns :
        \/ \E addr \in {ClientOne, ClientTwo} : Accept(c, addr)
        \/ TaskStart(c)
        \/ ProcessMalformed(c)
        \/ \E request \in FallRequests : Process(c, request)

SpecFall == InitFall /\ [][NextFall]_vars

----------------------------------------------------------------------------
(* C21: FileServer fall-through *)

\* the request path of c escapes the root its host's Root directive names
Escapes(c) ==
    ~sanitize_path(<<WWW>>, trim_start_matches(conn[c].req.path, "/")).some

\* the walk of c evaluated directive i
Evaluated(c, i) ==
    \E k \in 1..Len(conn[c].visited) : conn[c].visited[k] = i

\* C21: when the request path escapes the root, the walk that evaluated a
\* FileServer directive also evaluates the directive declared after it
C21_FileServerFallThrough ==
    \A c \in Conns :
        /\ conn[c].pc = "closed"
        /\ conn[c].used_host.some
        /\ Escapes(c)
        => \A i \in 1..(Len(HostDirectives(c)) - 1) :
              /\ HostDirectives(c)[i].kind = "FileServer"
              /\ Evaluated(c, i)
              => Evaluated(c, i + 1)

----------------------------------------------------------------------------
(* The specification of the errors of a directive: one request at a time   *)
(* for a host that serves files without a root, or relays to a backend     *)
(* whose address just fits a heapless string                               *)

\* a destination whose address fills a heapless string
BackendWide == Address("x", HEAPLESS_STRING_SIZE, TRUE)

FilesNoRoot == <<FileServer>>

ProxyWide ==
    <<ReverseProxy(Star, <<BackendWide, BackendBare>>, Options(1, 1, "RoundRobin"))>>

ErrSettings ==
    { ServerSettings((HostA :> FilesNoRoot), FALSE),
      ServerSettings((HostA :> ProxyWide), FALSE) }

\* a request path longer than a heapless string
LongPath ==
    [i \in 1..(HEAPLESS_STRING_SIZE + 1) |-> IF i = 1 THEN "/" ELSE "p"]

ErrRequests ==
    { Request(TRUE, HostA, path, <<>>, None, gzip) :
        path \in {<<"/">>, <<"/", "b">>, LongPath}, gzip \in BOOLEAN }

ErrConns == {1}

InitErr ==
    /\ NoCall
    /\ \E s \in ErrSettings :
          /\ store = <<s>>
          /\ pools = NewPools(1, s.hosts, 0)
    /\ lock = 1
    /\ now = 0
    /\ up \in SUBSET {"x"}
    /\ profile \in {"debug", "release"}
    /\ max_connections = 1
    /\ workers = OneWorker(store[1])
    /\ supervisor = NoSupervisor
    /\ conn = [c \in Conns |-> FreeConn]

NextErr ==
    \E c \in ErrConns :
        \/ \E addr \in {ClientOne, ClientTwo} : Accept(c, addr)
        \/ TaskStart(c)
        \/ \E request \in ErrRequests : Process(c, request)
        \/ Scan(c)
        \/ ConnectAttempt(c)
        \/ MarkAlive(c)
        \/ MarkDead(c)
        \/ \E outcome \in RelayOutcomes : Relay(c, outcome, 200)

SpecErr == InitErr /\ [][NextErr]_vars

----------------------------------------------------------------------------
(* C22: error propagation in the pipeline *)

\* C22: a request that was parsed and for which a host was selected is not
\* closed without a response: whatever its directive returned, the client
\* was written a response, and the last response carries the status logged
C22_ErrorPropagation ==
    \A c \in Conns :
        /\ conn[c].pc = "closed"
        /\ conn[c].parsed
        /\ conn[c].used_host.some
        => /\ conn[c].sock # <<>>
           /\ conn[c].logged # <<>>
           /\ conn[c].sock[Len(conn[c].sock)].status
                 = conn[c].logged[Len(conn[c].logged)]

----------------------------------------------------------------------------
(* request.rs: socket_to_request and parse_request_headers on what a       *)
(* client sends before it stops sending                                    *)

\* request.rs: the capacity of the header array handed to httparse
HEADER_BUF_SIZE == 32

\* what a client sends: nothing at all (empty), or a request head with
\* headers header lines that ends with the blank line or not (terminated),
\* whose request line and header lines follow the grammar or not (syntax),
\* with minor version version of HTTP/1, whose bytes are UTF-8 or not (utf8)
\* and whose target and headers the http crate takes or not (builds);
\* request is the request the head spells
Raw(empty, terminated, headers, syntax, version, utf8, builds, request) ==
    [empty |-> empty, terminated |-> terminated, headers |-> headers,
     syntax |-> syntax, version |-> version, utf8 |-> utf8, builds |-> builds,
     request |-> request]

\* httparse::Request::parse with an array of capacity headers: Err on a
\* token or version it does not take and on a header beyond the array's
\* capacity, Partial while the blank line is missing, else Complete
httparse_parse(raw, capacity) ==
    IF ~raw.syntax THEN "Err"
    ELSE IF raw.version \notin {0, 1} THEN "Err"
    ELSE IF raw.headers > capacity THEN "Err"
    ELSE IF ~raw.terminated THEN "Partial"
    ELSE "Complete"

\* parse_request_headers: Err when the head is not UTF-8, None (here "none")
\* when the second parse does not complete or the builder refuses the
\* request, else the request
parse_request_headers(raw) ==
    IF ~raw.utf8 THEN Err("RequestError")
    ELSE IF httparse_parse(raw, HEADER_BUF_SIZE) # "Complete" THEN Ok(None)
    ELSE IF ~raw.builds THEN Ok(None)
    ELSE Ok(Some(raw.request))

\* the mutant of socket_to_request: a head that lacks its blank line is
\* handed on when the client stops sending
socket_to_request_partial(raw) ==
    IF raw.empty THEN Err("ResponseError")
    ELSE LET status == httparse_parse(raw, HEADER_BUF_SIZE)
         IN  IF status = "Err" THEN Err("RequestError")
             ELSE IF status = "Partial" THEN Ok(raw.request)
             ELSE LET parsed == parse_request_headers(raw)
                  IN  IF ~parsed.ok THEN parsed
                      ELSE IF ~parsed.val.some THEN Err("RequestError")
                      ELSE Ok(parsed.val.val)

\* socket_to_request: a read of 0 bytes leaves the loop and fails; a parse
\* error fails; Partial reads on, and the next read yields 0 bytes once the
\* client has stopped sending; Complete hands the head to
\* parse_request_headers
socket_to_request(raw) ==
    IF raw.empty THEN Err("ResponseError")
    ELSE LET status == httparse_parse(raw, HEADER_BUF_SIZE)
         IN  IF status = "Err" THEN Err("RequestError")
             ELSE IF status = "Partial" THEN Err("ResponseError")
             ELSE LET parsed == parse_request_headers(raw)
                  IN  IF ~parsed.ok THEN parsed
                      ELSE IF ~parsed.val.some THEN Err("RequestError")
                      ELSE Ok(parsed.val.val)

\* the client sends and stops sending
Send(c, raw) ==
    /\ conn[c].pc = "process"
    /\ ~conn[c].raw.some
    /\ conn' = [conn EXCEPT ![c].raw = Some(raw)]
    /\ UNCHANGED <<call, ret, store, lock, pools, now, up, profile,
                   supervisor, max_connections, workers>>

\* directive_process: the match on socket_to_request
Receive(c) ==
    /\ conn[c].raw.some
    /\ LET got == socket_to_request(conn[c].raw.val)
       IN  IF got.ok THEN Process(c, got.val) ELSE ProcessMalformed(c)

----------------------------------------------------------------------------
(* The specification of the request parser: one connection at a time, the  *)
(* client sending any of the heads below, to a worker that serves files    *)
(* for one host and redirects for another                                  *)

ParseSettings ==
    { ServerSettings((HostA :> SiteFiles) @@ (HostB :> SiteRedir), FALSE),
      ServerSettings((Star :> SiteRedir), FALSE) }

ParseRequests ==
    { Request(TRUE, host, <<"/">>, <<>>, None, FALSE) : host \in {HostA, HostC} }

RawInputs ==
    { Raw(FALSE, terminated, headers, syntax, version, utf8, builds, request) :
        terminated \in BOOLEAN,
        headers \in {1, HEADER_BUF_SIZE, HEADER_BUF_SIZE + 1},
        syntax \in BOOLEAN, version \in {0, 1, 2}, utf8 \in BOOLEAN,
        builds \in BOOLEAN, request \in ParseRequests }
    \cup { Raw(TRUE, FALSE, 0, TRUE, 1, TRUE, TRUE, NoRequest) }

ParseConns == {1}

InitParse ==
    /\ NoCall
    /\ \E s \in ParseSettings :
          /\ store = <<s>>
          /\ pools = NewPools(1, s.hosts, 0)
    /\ lock = 1
    /\ now = 0
    /\ up = {}
    /\ profile = "release"
    /\ max_connections = 1
    /\ workers = OneWorker(store[1])
    /\ supervisor = NoSupervisor
    /\ conn = [c \in Conns |-> FreeConn]

NextParse ==
    \E c \in ParseConns :
        \/ Accept(c, ClientOne)
        \/ TaskStart(c)
        \/ \E raw \in RawInputs : Send(c, raw)
        \/ Receive(c)

SpecParse == InitParse /\ [][NextParse]_vars

----------------------------------------------------------------------------
(* C23: malformed input *)

\* what the client sent cannot be parsed: nothing, a head without its blank
\* line, more than 32 headers, a request line or header that breaks the
\* grammar, bytes that are not UTF-8, a target or header the http crate
\* refuses, or a version other than HTTP/1.0 and HTTP/1.1
Malformed(raw) ==
    \/ raw.empty
    \/ ~raw.terminated
    \/ raw.headers > 32
    \/ ~raw.syntax
    \/ ~raw.utf8
    \/ ~raw.builds
    \/ raw.version \notin {0, 1}

\* C23: a connection whose input cannot be parsed ends with the canned 400
\* Bad Request and nothing else written, without a host looked up, a
\* directive evaluated or a pool entered
C23_MalformedInput ==
    \A c \in Conns :
        /\ conn[c].raw.some
        /\ Malformed(conn[c].raw.val)
        /\ conn[c].pc \notin {"process"}
        => /\ conn[c].pc = "closed"
           /\ conn[c].sock = <<error_response(400)>>
           /\ conn[c].sock[1].status = 400
           /\ conn[c].sock[1].body = "Bad request"
           /\ ~conn[c].parsed
           /\ ~conn[c].used_host.some
           /\ conn[c].visited = <<>>
           /\ conn[c].pool = NoPool

\* a head of 33 well-formed headers, complete and in HTTP/1.1, was answered
C23_Witness ==
    \E c \in Conns :
        /\ conn[c].pc = "closed"
        /\ conn[c].raw.some
        /\ ~conn[c].raw.val.empty
        /\ conn[c].raw.val.headers = 33
        /\ conn[c].raw.val.terminated
        /\ conn[c].raw.val.syntax
        /\ conn[c].raw.val.utf8
        /\ conn[c].raw.val.builds
        /\ conn[c].raw.val.version = 1
        /\ conn[c].sock = <<error_response(400)>>

----------------------------------------------------------------------------
(* C24: the revival transition *)

\* the backend the iteration of get_next_backend that c is about to make
\* looks at, and its alive_state
ScannedIndex(c) ==
    ScanIndex(c, pools[conn[c].pool], PoolDirective(conn[c].pool))

ScannedState(c) == pools[conn[c].pool].alive_state[ScannedIndex(c) + 1]

\* lb_interval has elapsed for the backend c's iteration looks at, the
\* instant since + lb_interval included
IntervalElapsed(c) ==
    now >= ScannedState(c).since
              + PoolDirective(conn[c].pool).options.lb_interval

\* C24: an iteration of get_next_backend that looks at a Dead backend with
\* retries_left > 0 returns it exactly when now >= since + lb_interval, and
\* then leaves it Alive(now)
C24_RevivalTransition ==
    [][\A c \in Conns :
          /\ ScanStepBy(c)
          /\ ScannedState(c).state = "Dead"
          /\ ScannedState(c).retries_left > 0
          => /\ IntervalElapsed(c) <=> conn'[c].backend = Some(ScannedIndex(c))
             /\ conn'[c].backend = Some(ScannedIndex(c))
                   => pools'[conn[c].pool].alive_state[ScannedIndex(c) + 1]
                         = Alive(now)]_vars

----------------------------------------------------------------------------
(* C25: the periodic reset *)

\* C25: an iteration of get_next_backend that looks at a Dead backend with
\* retries_left = 0 at or after since + lb_interval leaves it Dead with
\* since = now and retries_left = lb_retries
C25_PeriodicReset ==
    [][\A c \in Conns :
          /\ ScanStepBy(c)
          /\ ScannedState(c).state = "Dead"
          /\ ScannedState(c).retries_left = 0
          /\ IntervalElapsed(c)
          => pools'[conn[c].pool].alive_state[ScannedIndex(c) + 1]
                = Dead(now, PoolDirective(conn[c].pool).options.lb_retries)]_vars

----------------------------------------------------------------------------
(* C26: the retry budget *)

\* C26: every Dead backend of every pool has 0 <= retries_left <= lb_retries
C26_RetryBudget ==
    \A pid \in DOMAIN pools :
        \A i \in 1..PoolSize(pid) :
            pools[pid].alive_state[i].state = "Dead"
            => /\ pools[pid].alive_state[i].retries_left >= 0
               /\ pools[pid].alive_state[i].retries_left
                     <= PoolDirective(pid).options.lb_retries

\* a backend was marked Dead with its whole budget of two retries, and then
\* marked Dead again after a selection had revived it, while another
\* dispatch is inside get_next_backend on the same pool
C26_Witness ==
    \E c \in Conns, d \in Conns :
        /\ c # d
        /\ conn[c].pc = "select"
        /\ conn[c].revivals # {}
        /\ \E i \in conn[c].revivals :
              /\ i \in conn[c].failed
              /\ pools[conn[c].pool].alive_state[i + 1] = Dead(now, 2)
        /\ conn[d].pc = "select"
        /\ conn[d].pool = conn[c].pool

----------------------------------------------------------------------------
(* C27: no stale Alive *)

\* the step is the call of set_alive_backend by the dispatch of c
SetsAlive(c) == conn[c].pc = "alive" /\ conn'[c].pc = "relay"

\* C27: a dispatch whose connect success came before a connect failure that
\* set_dead_backend has already written does not make the backend Alive
C27_NoStaleAlive ==
    [][\A c \in Conns :
          SetsAlive(c) /\ conn[c].stale
          => pools'[conn[c].pool].alive_state[conn[c].backend.val + 1].state
                # "Alive"]_vars

----------------------------------------------------------------------------
(* The specification of the connect loop: one dispatch after the other     *)
(* into one pool of one or two backends that start and stop accepting      *)
(* connections at any moment, while the clock runs                         *)

\* a worker whose one pool has a single backend
Single(options) ==
    ServerSettings((HostA :> <<ReverseProxy(Star, <<BackendX>>, options)>>),
                   FALSE)

ConnectSettings ==
    {Balanced(Options(lb_retries, 1, lb_policy)) :
        lb_retries \in {0, 1, 2}, lb_policy \in {"RoundRobin", "IPHash"}}
    \cup {Single(Options(1, 1, lb_policy)) :
             lb_policy \in {"RoundRobin", "IPHash"}}

ConnectConns == {1}

InitConnect ==
    /\ NoCall
    /\ \E s \in ConnectSettings :
          /\ store = <<s>>
          /\ pools = NewPools(1, s.hosts, 0)
    /\ lock = 1
    /\ now = 0
    /\ up = {}
    /\ profile = "release"
    /\ max_connections = 1
    /\ workers = OneWorker(store[1])
    /\ supervisor = NoSupervisor
    /\ conn = [c \in Conns |-> FreeConn]

NextConnect ==
    \/ \E c \in ConnectConns :
        \/ Accept(c, ClientOne)
        \/ TaskStart(c)
        \/ Process(c, LBRequest)
        \/ Scan(c)
        \/ ConnectAttempt(c)
        \/ MarkAlive(c)
        \/ MarkDead(c)
        \/ \E outcome \in RelayOutcomes : Relay(c, outcome, 200)
    \/ Tick
    \/ \E name \in {"x", "y"} : Flip(name)

SpecConnect == InitConnect /\ [][NextConnect]_vars

----------------------------------------------------------------------------
(* C28: the connect protocol *)

\* the lb_retries of the directive c's dispatch was made for
Budget(c) == HostDirectives(c)[conn[c].directive].options.lb_retries

\* the backend c's dispatch has selected accepts connections
BackendUp(c) ==
    PoolDirective(conn[c].pool).destinations[conn[c].backend.val + 1].name \in up

\* the alive_state of the backend c's dispatch has selected, after the step
BackendStateAfter(c) ==
    pools'[conn[c].pool].alive_state[conn[c].backend.val + 1]

----------------------------------------------------------------------------
(* C29: no eligible backend *)

\* the iterations the call of get_next_backend that c is in has yet to make
IterationsLeft(c) ==
    IF conn[c].scan_left > 0 THEN conn[c].scan_left ELSE PoolSize(conn[c].pool)

\* the backend c's iteration looks at is Dead and either not yet due or
\* without retries left
Ineligible(c) ==
    /\ ScannedState(c).state = "Dead"
    /\ \/ now < ScannedState(c).since
                   + PoolDirective(conn[c].pool).options.lb_interval
       \/ ScannedState(c).retries_left = 0

\* C29: when the last iteration of a call of get_next_backend finds its
\* backend ineligible as those before it, the dispatch ends: the canned 502
\* is written to the client and logged, no backend is selected and no
\* connect attempt follows
C29_NoEligibleBackend ==
    [][\A c \in Conns :
          /\ ScanStepBy(c)
          /\ IterationsLeft(c) = 1
          /\ Ineligible(c)
          => /\ conn'[c].pc = "closed"
             /\ conn'[c].sock = Append(conn[c].sock, error_response(502))
             /\ conn'[c].sock[Len(conn'[c].sock)].status = 502
             /\ conn'[c].logged = Append(conn[c].logged, 502)
             /\ ~conn'[c].backend.some
             /\ conn'[c].first = conn[c].first
             /\ conn'[c].retries = 0]_vars

\* the only backend of a pool died in a dispatch, whose next selection
\* found no backend and which ended with 502 as its only response
C29_Witness ==
    \E c \in Conns :
        /\ conn[c].pc = "closed"
        /\ conn[c].pool # NoPool
        /\ PoolSize(conn[c].pool) = 1
        /\ conn[c].failed = {0}
        /\ conn[c].sock = <<error_response(502)>>
        /\ conn[c].logged = <<502>>
        /\ pools[conn[c].pool].alive_state[1].state = "Dead"

----------------------------------------------------------------------------
(* The specification of the IP hash: two dispatches at a time, of clients  *)
(* at three addresses, into one IPHash pool of three backends of which z   *)
(* accepts connections, y refuses them and x does either, while the clock  *)
(* runs                                                                    *)

BackendZ == Address("z", 12, TRUE)

HashSettings ==
    { ServerSettings((HostA :> <<ReverseProxy(Star, <<BackendX, BackendY, BackendZ>>,
                                              Options(1, 1, "IPHash"))>>),
                     FALSE) }

ClientThree == V4(<<10, 0, 0, 3>>)

ClientSeven == V4(<<10, 0, 0, 7>>)

\* the clients whose connections slot c takes
HashClients(c) == IF c = 1 THEN {ClientThree, ClientSeven} ELSE {ClientOne}

HashConns == {1, 2}

InitHash ==
    /\ NoCall
    /\ \E s \in HashSettings :
          /\ store = <<s>>
          /\ pools = NewPools(1, s.hosts, 0)
    /\ lock = 1
    /\ now = 0
    /\ up \in {{"z"}, {"x", "z"}}
    /\ profile = "release"
    /\ max_connections = 2
    /\ workers = OneWorker(store[1])
    /\ supervisor = NoSupervisor
    /\ conn = [c \in Conns |-> FreeConn]

NextHash ==
    \/ \E c \in HashConns :
        \/ \E addr \in HashClients(c) : Accept(c, addr)
        \/ TaskStart(c)
        \/ Process(c, LBRequest)
        \/ Scan(c)
        \/ ConnectAttempt(c)
        \/ MarkAlive(c)
        \/ MarkDead(c)
        \/ Relay(c, IF conn[c].pc = "relay" /\ BackendUp(c)
                    THEN "ok" ELSE "write_failed", 200)
    \/ Tick

SpecHash == InitHash /\ [][NextHash]_vars

----------------------------------------------------------------------------
(* C30: IpHash determinism *)

\* the 64-bit FNV-1a hash of the four octets modulo 3, from the reference
\* algorithm: 10.0.0.1 hashes to 0x8cf02dd2fbe76fec, 10.0.0.3 to
\* 0x8cf02fd2fbe77352 and 10.0.0.7 to 0x8cf02bd2fbe76c86
FnvStart ==
    (<<10, 0, 0, 1>> :> 0) @@ (<<10, 0, 0, 3>> :> 2) @@ (<<10, 0, 0, 7>> :> 1)

\* the step is an iteration of get_next_backend on an IPHash pool
HashStepBy(c) ==
    /\ ScanStepBy(c)
    /\ ~RoundRobinPool(conn[c].pool)
    /\ conn[c].addr.v4

----------------------------------------------------------------------------
(* C31: upstream status reporting *)

\* the step ends the relay of c: proxy_directive returns from the exchange
\* with the backend
RelayEnds(c) == conn[c].pc = "relay" /\ conn'[c].pc = "closed"

\* C31: when the relay of a request ends, without an error that
\* directive_process could not report, with one response on the client's
\* socket, the status recorded for the request is the status of that
\* response: the upstream's own status when the upstream answered, also
\* when it is not 200, and 502 when the exchange with the backend failed
C31_UpstreamStatusReported ==
    [][\A c \in Conns :
          RelayEnds(c) /\ conn'[c].result = "ok" /\ Len(conn'[c].sock) = 1
          => conn'[c].logged = <<conn'[c].sock[1].status>>]_vars

----------------------------------------------------------------------------
(* C32: the access log *)

\* C32: a request that was answered has exactly one access-log line, and
\* the status of the line is the status of the response sent to the client,
\* whatever the outcome: a file, a range, a redirect, an unknown host, a
\* malformed request, 404, 416, 502 or a relayed upstream response
C32_AccessLog ==
    \A c \in Conns :
        conn[c].pc = "closed" /\ Len(conn[c].sock) >= 1
        => conn[c].logged = <<conn[c].sock[1].status>>

----------------------------------------------------------------------------
(* C33: accept errors *)

\* C33: an accept error does not end the accepting of a worker that has not
\* been stopped: while is_running is set, the worker's select never waits
\* with its accept arm disabled
C33_AcceptErrorsSurvivable ==
    \A p \in Ports : workers[p].pc = "deaf" => ~workers[p].is_running

----------------------------------------------------------------------------
(* reverse_proxy.rs: the relay of proxy_directive byte by byte.  call holds *)
(* what the two peers do, ret the progress of the relay: the bytes read    *)
(* from the upstream and from the client, the bytes written to each, the   *)
(* write halves that were shut down and the results of the two copies      *)

\* the most bytes one read returns
MaxRead == 2

\* the byte that ends a response head, and a byte no response head holds
Terminator == "T"

Garbage == "X"

\* the canned 502 as the client receives it, and the requests on the wire:
\* FirstRequest is the one directive_process parsed and dispatched,
\* SecondRequest one the client sends on the same connection afterwards
Canned502 == "502"

FirstRequest == "q1"

SecondRequest == "q2"

\* what an upstream sends before it closes: a head and a body, a head
\* alone, half a head, and bytes that are no head
UpstreamStreams ==
    { <<"s", Terminator>>, <<"s", Terminator, "a", "b">>,
      <<"s", "h", Terminator, "a", "b", "c">>, <<"s">>, <<"s", Garbage>> }

\* what the client sends after its request before it closes
ClientStreams == { <<>>, <<SecondRequest>>, <<"w", SecondRequest>> }

\* what goes wrong on the two sockets, if anything
Faults == {"none", "client_write", "client_read", "backend_write",
           "backend_read"}

\* request_to_bytes: the request line, the headers and the body of the
\* request that was parsed
request_to_bytes(request) == <<request>>

\* httparse::Response::parse on the buffer: the length of the head, Partial
\* while the terminator has not arrived, an error for bytes that are no head
ParseResponse(buf) ==
    IF \E i \in 1..Len(buf) :
          /\ buf[i] = Garbage
          /\ \A j \in 1..i : buf[j] # Terminator
    THEN [kind |-> "Err", len |-> 0]
    ELSE IF \E i \in 1..Len(buf) : buf[i] = Terminator
    THEN [kind |-> "Complete",
          len |-> CHOOSE i \in 1..Len(buf) :
                     /\ buf[i] = Terminator
                     /\ \A j \in 1..(i - 1) : buf[j] # Terminator]
    ELSE [kind |-> "Partial", len |-> 0]

\* the relay before its first step: the stream to the backend is connected
Connected ==
    [fn |-> "relay", pc |-> "request", buf |-> <<>>, header_len |-> 0,
     up_read |-> 0, cl_read |-> 0, client_out |-> <<>>, backend_in |-> <<>>,
     b2c |-> "idle", c2b |-> "idle", b2c_res |-> "none", c2b_res |-> "none",
     client_shut |-> FALSE, backend_shut |-> FALSE, client_broken |-> FALSE,
     result |-> "none", logged |-> <<>>, checked |-> {FirstRequest}]

\* proxy_directive returns ResponseError 502 from the relay
RelayFailed(state) == [state EXCEPT !.pc = "returned", !.result = "err"]

\* the bytes of a stream from position pos + 1 on, n of them
Taken(stream, pos, n) == SubSeq(stream, pos + 1, pos + n)

\* backend_stream.write_all(&request_bytes)
WriteRequest(failed) ==
    /\ call.fn = "relay" /\ ret.pc = "request"
    /\ failed => call.fault = "backend_write"
    /\ ret' = IF failed THEN RelayFailed(ret)
              ELSE [ret EXCEPT !.pc = "head",
                               !.backend_in = request_to_bytes(FirstRequest)]
    /\ UNCHANGED call
    /\ UNCHANGED server_vars

\* get_header_len, one iteration of its loop: a read of n bytes, where 0
\* stands for the end of the stream and for a read error alike, then the
\* parse of everything read so far
get_header_len(n, failed) ==
    /\ call.fn = "relay" /\ ret.pc = "head"
    /\ failed => call.fault = "backend_read" /\ n = 0
    /\ ~failed => /\ n <= Len(call.upstream) - ret.up_read
                  /\ n = 0 <=> ret.up_read = Len(call.upstream)
    /\ LET buf == ret.buf \o Taken(call.upstream, ret.up_read, n)
           read == [ret EXCEPT !.buf = buf, !.up_read = @ + n]
           parsed == ParseResponse(buf)
       IN  ret' = IF n = 0 \/ parsed.kind = "Err" THEN RelayFailed(read)
                  ELSE IF parsed.kind = "Complete"
                  THEN [read EXCEPT !.pc = "forward", !.header_len = parsed.len]
                  ELSE read
    /\ UNCHANGED call
    /\ UNCHANGED server_vars

\* the mutant of ForwardHead: the bytes read past the head are not written
ForwardHeadOnly(failed_at) ==
    /\ call.fn = "relay" /\ ret.pc = "forward"
    /\ failed_at = "none"
    /\ ret' = [ret EXCEPT !.client_out = SubSeq(ret.buf, 1, ret.header_len),
                          !.pc = "copy", !.b2c = "copy", !.c2b = "copy"]
    /\ UNCHANGED call
    /\ UNCHANGED server_vars

\* the head of the response is written to the client, then the bytes that
\* were read past it; a write that fails leaves the socket unusable
ForwardHead(failed_at) ==
    /\ call.fn = "relay" /\ ret.pc = "forward"
    /\ failed_at # "none" => call.fault = "client_write"
    /\ failed_at = "rest" => Len(ret.buf) > ret.header_len
    /\ ret' = CASE failed_at = "head" ->
                     RelayFailed([ret EXCEPT !.client_broken = TRUE])
                [] failed_at = "rest" ->
                     RelayFailed([ret EXCEPT
                        !.client_out = SubSeq(ret.buf, 1, ret.header_len),
                        !.client_broken = TRUE])
                [] OTHER ->
                     [ret EXCEPT !.client_out = ret.buf, !.pc = "copy",
                                 !.b2c = "copy", !.c2b = "copy"]
    /\ UNCHANGED call
    /\ UNCHANGED server_vars

\* the mutant of backend_to_client: the copy ends and the client's write
\* half is left open
backend_to_client_open(n, failed) ==
    /\ call.fn = "relay" /\ ret.b2c = "copy"
    /\ failed = "none"
    /\ n <= Len(call.upstream) - ret.up_read
    /\ n = 0 <=> ret.up_read = Len(call.upstream)
    /\ ret' = IF n = 0
              THEN [ret EXCEPT !.b2c = "ended", !.b2c_res = "ok"]
              ELSE [ret EXCEPT
                      !.up_read = @ + n,
                      !.client_out = @ \o Taken(call.upstream, ret.up_read, n)]
    /\ UNCHANGED call
    /\ UNCHANGED server_vars

\* backend_to_client: tokio::io::copy from the backend to the client, one
\* read and the write of what was read, and at the end of the copy the
\* shutdown of the client's write half
backend_to_client(n, failed) ==
    /\ call.fn = "relay" /\ ret.b2c = "copy"
    /\ failed = "read" => call.fault = "backend_read" /\ n = 0
    /\ failed = "write" => call.fault = "client_write" /\ n > 0
    /\ n <= Len(call.upstream) - ret.up_read
    /\ failed = "none" => (n = 0 <=> ret.up_read = Len(call.upstream))
    /\ ret' = CASE failed = "read" ->
                     [ret EXCEPT !.b2c = "ended", !.b2c_res = "err",
                                 !.client_shut = TRUE]
                [] failed = "write" ->
                     [ret EXCEPT !.b2c = "ended", !.b2c_res = "err",
                                 !.up_read = @ + n, !.client_broken = TRUE]
                [] n = 0 ->
                     [ret EXCEPT !.b2c = "ended", !.b2c_res = "ok",
                                 !.client_shut = TRUE]
                [] OTHER ->
                     [ret EXCEPT
                        !.up_read = @ + n,
                        !.client_out = @ \o Taken(call.upstream, ret.up_read, n)]
    /\ UNCHANGED call
    /\ UNCHANGED server_vars

\* client_to_backend: tokio::io::copy from the client to the backend and
\* the shutdown of the backend's write half
client_to_backend(n, failed) ==
    /\ call.fn = "relay" /\ ret.c2b = "copy"
    /\ failed = "read" => call.fault = "client_read" /\ n = 0
    /\ failed = "write" => call.fault = "backend_write" /\ n > 0
    /\ n <= Len(call.client) - ret.cl_read
    /\ failed = "none" => (n = 0 <=> ret.cl_read = Len(call.client))
    /\ ret' = CASE failed = "read" ->
                     [ret EXCEPT !.c2b = "ended", !.c2b_res = "err",
                                 !.backend_shut = TRUE,
                                 !.client_broken = TRUE]
                [] failed = "write" ->
                     [ret EXCEPT !.c2b = "ended", !.c2b_res = "err",
                                 !.cl_read = @ + n]
                [] n = 0 ->
                     [ret EXCEPT !.c2b = "ended", !.c2b_res = "ok",
                                 !.backend_shut = TRUE]
                [] OTHER ->
                     [ret EXCEPT
                        !.cl_read = @ + n,
                        !.backend_in = @ \o Taken(call.client, ret.cl_read, n)]
    /\ UNCHANGED call
    /\ UNCHANGED server_vars

\* tokio::join! of the two copies and the match on their results
Join ==
    /\ call.fn = "relay" /\ ret.pc = "copy"
    /\ ret.b2c = "ended" /\ ret.c2b = "ended"
    /\ ret' = [ret EXCEPT !.pc = "returned",
                          !.result = IF ret.b2c_res = "ok" /\ ret.c2b_res = "ok"
                                     THEN "ok" ELSE "err"]
    /\ UNCHANGED call
    /\ UNCHANGED server_vars

\* the ReverseProxy arm of directive_process on what proxy_directive
\* returned: Ok is logged; for ResponseError 502 the canned 502 is sent,
\* which fails on a socket whose write half is shut down or whose peer is
\* gone, and then 500 is logged
Answer ==
    /\ call.fn = "relay" /\ ret.pc = "returned"
    /\ ret' = IF ret.result = "ok"
              THEN [ret EXCEPT !.pc = "closed", !.logged = <<200>>]
              ELSE IF ret.client_shut \/ ret.client_broken
              THEN [ret EXCEPT !.pc = "closed", !.logged = <<500>>]
              ELSE [ret EXCEPT !.pc = "closed", !.logged = <<502>>,
                               !.client_out = Append(@, Canned502)]
    /\ UNCHANGED call
    /\ UNCHANGED server_vars

InitRelay ==
    /\ call \in [fn : {"relay"}, upstream : UpstreamStreams,
                 client : ClientStreams, fault : Faults]
    /\ ret = Connected
    /\ NoServer

NextRelay ==
    \/ \E failed \in BOOLEAN : WriteRequest(failed)
    \/ \E n \in 0..MaxRead, failed \in BOOLEAN : get_header_len(n, failed)
    \/ \E failed_at \in {"none", "head", "rest"} : ForwardHead(failed_at)
    \/ \E n \in 0..MaxRead, failed \in {"none", "read", "write"} :
          backend_to_client(n, failed)
    \/ \E n \in 0..MaxRead, failed \in {"none", "read", "write"} :
          client_to_backend(n, failed)
    \/ Join
    \/ Answer

SpecRelay == InitRelay /\ [][NextRelay]_vars

----------------------------------------------------------------------------
(* C34: relay transparency *)

\* s is the start of t
IsPrefix(s, t) == Len(s) <= Len(t) /\ s = SubSeq(t, 1, Len(s))

\* the head of the upstream's response has been found and forwarded
HeadForwarded == ret.fn = "relay" /\ ret.b2c # "idle"

\* C34: once the head of the upstream's response has been found, what the
\* client has received of the upstream's bytes is, at every moment, the
\* start of what the upstream sent, each byte once and in order with the
\* buffered bytes first, and all of it once that copy has ended without an
\* error; the same holds for the client's bytes towards the upstream, after
\* the request; a direction whose read has ended has shut down the write
\* half of the other side; and the relay returns only when both directions
\* have ended
C34_RelayTransparency ==
    HeadForwarded /\ ret.pc \in {"copy", "returned"} =>
        /\ IsPrefix(ret.client_out, call.upstream)
        /\ Len(ret.client_out) >= Len(ret.buf)
        /\ ret.b2c_res = "ok" => ret.client_out = call.upstream
        /\ IsPrefix(ret.backend_in, request_to_bytes(FirstRequest) \o call.client)
        /\ ret.c2b_res = "ok"
           => ret.backend_in = request_to_bytes(FirstRequest) \o call.client
        /\ ret.b2c = "ended" /\ ret.b2c_res = "ok" => ret.client_shut
        /\ ret.c2b = "ended" /\ ret.c2b_res = "ok" => ret.backend_shut
        /\ ret.pc = "returned" => ret.b2c = "ended" /\ ret.c2b = "ended"

\* a relay returned Ok after the head arrived together with bytes of the
\* body, more of the body was copied afterwards and the client sent bytes
\* of its own
C34_Witness ==
    /\ ret.fn = "relay"
    /\ ret.pc = "returned"
    /\ ret.result = "ok"
    /\ Len(ret.buf) > ret.header_len
    /\ Len(call.upstream) > Len(ret.buf)
    /\ Len(call.client) > 1

----------------------------------------------------------------------------
(* C37: at most one response per request *)

\* the response heads among the bytes the client was sent: the head of the
\* upstream's response and the canned responses of directive_process
HeadsSent ==
    {i \in 1..Len(ret.client_out) :
        ret.client_out[i] \in {Terminator, Canned502}}

\* C37: the client is sent at most one response head on its connection;
\* after the head of an upstream response has been forwarded, a relay that
\* fails does not put a canned 502 behind it
C37_OneResponse ==
    ret.fn = "relay" => Cardinality(HeadsSent) <= 1

\* a relay failed after the upstream's head and body had been forwarded:
\* proxy_directive returned ResponseError 502 and directive_process ended
\* without a second response on the socket
C37_Witness ==
    /\ ret.fn = "relay"
    /\ ret.pc = "closed"
    /\ ret.result = "err"
    /\ ret.c2b_res = "err"
    /\ ret.b2c_res = "ok"
    /\ ret.client_out = call.upstream
    /\ ret.logged = <<500>>

----------------------------------------------------------------------------
(* C39: every forwarded request was checked *)

\* the requests on the wire
Requests == {FirstRequest, SecondRequest}

\* C39: every request that reaches the upstream over a client connection
\* went through the host selection and the pattern matching of
\* directive_process; a request the client sends after its first one on a
\* proxied connection is not forwarded without that check
C39_ForwardedWasChecked ==
    ret.fn = "relay"
    => \A i \in 1..Len(ret.backend_in) :
          ret.backend_in[i] \in Requests => ret.backend_in[i] \in ret.checked

----------------------------------------------------------------------------
(* The specification of a dispatch into a pool none of whose backends     *)
(* accepts connections, on a clock that never stops: past MaxTime the      *)
(* timestamps of the pools are kept relative to the clock, which is exact  *)
(* for the comparison of get_next_backend while lb_interval < MaxTime      *)

\* alive_state a second later on the relative clock
Aged(alive_state) ==
    [i \in DOMAIN alive_state |->
        [alive_state[i] EXCEPT !.since = IF alive_state[i].since > 0
                                         THEN alive_state[i].since - 1 ELSE 0]]

\* a second passes, in the middle of a connect attempt that times out or
\* between two steps of a dispatch
Elapse ==
    /\ IF now < MaxTime
       THEN now' = now + 1 /\ pools' = pools
       ELSE /\ now' = now
            /\ pools' = [pid \in DOMAIN pools |->
                           [pools[pid] EXCEPT
                              !.alive_state = Aged(pools[pid].alive_state)]]
    /\ UNCHANGED <<call, ret, store, lock, up, profile, supervisor,
                   max_connections, workers, conn>>

\* pools of two backends and of one under the RoundRobin policy
CycleSettings ==
    {Balanced(Options(lb_retries, lb_interval, "RoundRobin")) :
        lb_retries \in {0, 1, 2}, lb_interval \in {0, 1}}
    \cup {Single(Options(lb_retries, lb_interval, "RoundRobin")) :
             lb_retries \in {1, 2}, lb_interval \in {0, 1}}

CycleConns == {1}

InitCycle ==
    /\ NoCall
    /\ \E s \in CycleSettings :
          /\ store = <<s>>
          /\ pools = NewPools(1, s.hosts, 0)
    /\ lock = 1
    /\ now = 0
    /\ up = {}
    /\ profile = "release"
    /\ max_connections = 1
    /\ workers = OneWorker(store[1])
    /\ supervisor = NoSupervisor
    /\ conn = [c \in Conns |-> FreeConn]

\* a step of the task of a connection
CycleStep(c) ==
    \/ TaskStart(c)
    \/ Process(c, LBRequest)
    \/ Scan(c)
    \/ ConnectAttempt(c)
    \/ MarkDead(c)

NextCycle ==
    \/ \E c \in CycleConns : Accept(c, ClientOne)
    \/ \E c \in CycleConns : CycleStep(c)
    \/ Elapse

\* the task of a connection is scheduled again and again, and time passes
SpecCycle ==
    /\ InitCycle
    /\ [][NextCycle]_vars
    /\ \A c \in CycleConns : WF_vars(CycleStep(c))
    /\ WF_vars(Elapse)

----------------------------------------------------------------------------
(* C36: dispatch termination *)

\* C36: a dispatch all of whose connect attempts fail ends with a response
\* to the client, whatever the pool size, lb_retries and lb_interval, also
\* when trying the other backends takes longer than lb_interval: a request
\* does not go round the pool for ever
C36_DispatchTerminates ==
    \A c \in CycleConns : (conn[c].pc = "select") ~> (conn[c].pc = "closed")

----------------------------------------------------------------------------
(* C38: single probe of a dead backend *)

\* the dispatch of c revived a Dead backend and the outcome of its connect
\* has not yet been written by set_alive_backend or set_dead_backend
Probing(c) ==
    /\ conn[c].pc \in {"connect", "alive", "dead"}
    /\ conn[c].revived.some
    /\ conn[c].backend.some

\* the step gives the dispatch of d the backend i of its pool
Given(d, i) ==
    /\ ~conn[d].backend.some
    /\ conn'[d].backend = Some(i)

\* C38: while a backend that was Dead is provisionally Alive, pending the
\* connect outcome of the dispatch that revived it, get_next_backend gives
\* it to no other dispatch: a backend whose last completed connect attempt
\* failed is probed by one dispatch at a time
C38_SingleProbe ==
    [][\A c \in Conns, d \in Conns :
          /\ c # d
          /\ Probing(c)
          /\ conn[d].pool = conn[c].pool
          => ~Given(d, conn[c].backend.val)]_vars

----------------------------------------------------------------------------
(* C40: no death without evidence *)

\* C40: a dispatch is about to mark its backend Dead only after at least
\* one of its connect attempts to it has failed, for every lb_retries, 0
\* included: fewer attempts are left than the directive grants
C40_NoDeathWithoutEvidence ==
    \A c \in Conns : conn[c].pc = "dead" => conn[c].retries < Budget(c)

----------------------------------------------------------------------------
(* C3: path safety *)

\* path lies inside root: root is a component-wise prefix of it and every
\* component after the prefix is a normal one (no "..", no root)
InsideRoot(path, root) ==
    /\ path_starts_with(path, root)
    /\ \A i \in (Len(root) + 1)..Len(path) : IsNormal(path[i])

\* C3: for every root and every request path, sanitize_path returns a path
\* inside the root or nothing, the requested file that file_directive opens
\* lies inside the root, and a request for which sanitize_path returns
\* nothing makes file_directive open no file
C3_PathSafety ==
    ret.fn = "file_directive" =>
        /\ ret.sanitized.some => InsideRoot(ret.sanitized.val, call.root)
        /\ ret.opened.some => InsideRoot(ret.opened.val, call.root)
        /\ ~ret.sanitized.some => ~ret.opened.some

\* a request with a ".." component that stays inside the root was opened
C3_Witness ==
    /\ ret.fn = "file_directive"
    /\ \E i \in 1..Len(Components(trim_start_matches(call.uri_path, "/"))) :
          Components(trim_start_matches(call.uri_path, "/"))[i] = ParentDir
    /\ ret.opened.some
    /\ Len(ret.opened.val) > Len(call.root)

----------------------------------------------------------------------------
(* C10: range correctness *)

ValidRange(start, end, file_size) == start <= end /\ end < file_size

\* C10: a request with a valid Range start-end on a file of length L is
\* answered 206 with Content-Range "bytes start-end/L", Content-Length
\* end-start+1 and a body of exactly the file bytes start..end (stated for the
\* requests that do not accept gzip, whose body is sent as it is read)
C10_RangeCorrect ==
    ret.fn = "range_request" /\ call.has_unit /\ ~call.gzip_supported =>
        LET parts == Split(call.range_values, "-")
        IN  Len(parts) = 2 /\ parse_u64(parts[1]).some /\ parse_u64(parts[2]).some
            /\ ValidRange(parse_u64(parts[1]).val, parse_u64(parts[2]).val,
                          call.file_size)
            => LET start == parse_u64(parts[1]).val
                   end   == parse_u64(parts[2]).val
               IN  /\ ret.status = 206
                   /\ ret.content_range =
                        <<"b", "y", "t", "e", "s", " ">> \o to_string(start)
                        \o <<"-">> \o to_string(end) \o <<"/">>
                        \o to_string(call.file_size)
                   /\ ret.content_length = end - start + 1
                   /\ ret.body = SubSeq(FileBytes(call.file_size), start + 1, end + 1)

----------------------------------------------------------------------------
(* C35: range parsing is total and bounded *)

\* what parse_range_header returned in the call that was made
ParsedRange ==
    parse_range_header(call.has_unit, call.range_values, call.file_size,
                       call.build)

\* C35: for every header bytes=<start>-<end>, either endpoint optional, and
\* every file size from 0 on, parse_range_header returns a range with
\* start <= end < file_size or fails with 416; no subtraction underflows,
\* also for a suffix longer than the file, for bytes=-0 and for an empty file
C35_RangeTotal ==
    /\ ret.fn = "range_request"
    /\ call.has_unit
    /\ Len(Split(call.range_values, "-")) = 2
    => \/ /\ ParsedRange.ok
          /\ ValidRange(ParsedRange.start, ParsedRange.end, call.file_size)
       \/ /\ ~ParsedRange.ok
          /\ ~ParsedRange.panic
          /\ ParsedRange.status = 416

====
